---- MODULE Spec2Model ----
(***************************************************************************)
(* Desktop automation of the CABAS client: process launch, window          *)
(* discovery, the three login strategies, login verification and the       *)
(* "test" driver of main.py.                                               *)
(*                                                                         *)
(* Strings are sequences of one-character strings so that Python's         *)
(* str.lower() and the substring test `a in b` are computed, not assumed.  *)
(* Time is counted in ticks of 0.5 s (the default check_interval).         *)
(***************************************************************************)
EXTENDS Integers, Sequences, FiniteSets, TLC

(***************************************************************************)
(* Text: case folding and substring search                                 *)
(***************************************************************************)
Upper == <<"A", "B", "C", "D", "E", "F", "G", "H", "I", "J", "K", "L", "M", "N", "O", "P", "Q", "R", "S", "T", "U", "V", "W", "X", "Y", "Z", "Ä", "Ö">>
LowerOf == <<"a", "b", "c", "d", "e", "f", "g", "h", "i", "j", "k", "l", "m", "n", "o", "p", "q", "r", "s", "t", "u", "v", "w", "x", "y", "z", "ä", "ö">>

\* str.lower() on one character
LowerChar(c) ==
  IF \E i \in 1..Len(Upper) : Upper[i] = c
    THEN LowerOf[CHOOSE i \in 1..Len(Upper) : Upper[i] = c]
    ELSE c

\* str.lower()
lower(s) == [i \in 1..Len(s) |-> LowerChar(s[i])]

\* str.upper() on one character
UpperChar(c) ==
  IF \E i \in 1..Len(LowerOf) : LowerOf[i] = c
    THEN Upper[CHOOSE i \in 1..Len(LowerOf) : LowerOf[i] = c]
    ELSE c

\* str.upper()
upper(s) == [i \in 1..Len(s) |-> UpperChar(s[i])]

\* Python's `sub in s` on strings
Contains(sub, s) ==
  \E i \in 0..(Len(s) - Len(sub)) : SubSeq(s, i + 1, i + Len(sub)) = sub

\* any(k in s for k in list)
AnyIn(list, s) == \E k \in 1..Len(list) : Contains(list[k], s)

\* floor division by two, as Python's // 2 (also for negative operands)
Half(n) == IF n >= 0 THEN n \div 2 ELSE -((1 - n) \div 2)

Min2(a, b) == IF a < b THEN a ELSE b
Max2(a, b) == IF a > b THEN a ELSE b

(***************************************************************************)
(* Literals of the source                                                  *)
(***************************************************************************)
T_CabServicePlatform == <<"C", "A", "B", " ", "S", "e", "r", "v", "i", "c", "e", " ", "P", "l", "a", "t", "f", "o", "r", "m">>
T_LoginCabServicePlatform == <<"L", "o", "g", "i", "n", " ", "-", " ", "C", "A", "B", " ", "S", "e", "r", "v", "i", "c", "e", " ", "P", "l", "a", "t", "f", "o", "r", "m">>
T_Dashboard == <<"D", "a", "s", "h", "b", "o", "a", "r", "d">>
T_Cabas == <<"C", "A", "B", "A", "S">>
T_CabasError == <<"C", "A", "B", "A", "S", " ", "E", "r", "r", "o", "r">>
T_Notepad == <<"N", "o", "t", "e", "p", "a", "d">>
window_titles ==
  << <<"C", "A", "B", " ", "S", "e", "r", "v", "i", "c", "e", " ", "P", "l", "a", "t", "f", "o", "r", "m">>,
     <<"C", "A", "B", ".", "C", "l", "i", "e", "n", "t", ".", "S", "h", "e", "l", "l">>,
     <<"C", "A", "B", "A", "S">>,
     <<"C", "A", "B">>,
     <<"C", "S", "P">>,
     <<"C", "a", "b", "g", "r", "o", "u", "p", "C", "S", "P">> >>
failure_indicators ==
  << <<"l", "o", "g", "i", "n">>,
     <<"s", "i", "g", "n", " ", "i", "n">>,
     <<"a", "u", "t", "h", "e", "n", "t", "i", "c", "a", "t", "i", "o", "n">>,
     <<"e", "r", "r", "o", "r">>,
     <<"i", "n", "v", "a", "l", "i", "d">> >>
success_indicators ==
  << <<"d", "a", "s", "h", "b", "o", "a", "r", "d">>,
     <<"m", "a", "i", "n">>,
     <<"h", "o", "m", "e">>,
     <<"w", "o", "r", "k", "s", "p", "a", "c", "e">>,
     <<"p", "l", "a", "t", "f", "o", "r", "m">> >>
success_texts ==
  << <<"W", "e", "l", "c", "o", "m", "e">>,
     <<"D", "a", "s", "h", "b", "o", "a", "r", "d">>,
     <<"H", "o", "m", "e">>,
     <<"M", "e", "n", "u">>,
     <<"L", "o", "g", "o", "u", "t">>,
     <<"P", "r", "o", "f", "i", "l", "e">>,
     <<"S", "e", "t", "t", "i", "n", "g", "s">> >>
failure_texts ==
  << <<"I", "n", "v", "a", "l", "i", "d">>,
     <<"E", "r", "r", "o", "r">>,
     <<"F", "a", "i", "l", "e", "d">>,
     <<"I", "n", "c", "o", "r", "r", "e", "c", "t">>,
     <<"T", "r", "y", " ", "a", "g", "a", "i", "n">> >>
login_form_texts ==
  << <<"U", "s", "e", "r", "n", "a", "m", "e">>,
     <<"P", "a", "s", "s", "w", "o", "r", "d">>,
     <<"L", "o", "g", "i", "n">>,
     <<"S", "i", "g", "n", " ", "i", "n">> >>
username_labels ==
  << <<"u", "s", "e", "r", "n", "a", "m", "e">>,
     <<"u", "s", "e", "r">>,
     <<"e", "m", "a", "i", "l">>,
     <<"l", "o", "g", "i", "n">>,
     <<"a", "n", "v", "ä", "n", "d", "a", "r", "n", "a", "m", "n">> >>
password_labels ==
  << <<"p", "a", "s", "s", "w", "o", "r", "d">>,
     <<"p", "a", "s", "s">>,
     <<"l", "ö", "s", "e", "n", "o", "r", "d">> >>

\* window titles and recognised screen texts the environment can show
X_Username == <<"U", "s", "e", "r", "n", "a", "m", "e", ":">>
X_Password == <<"P", "a", "s", "s", "w", "o", "r", "d", ":">>
X_Welcome == <<"W", "e", "l", "c", "o", "m", "e">>
X_Dashboard == <<"D", "A", "S", "H", "B", "O", "A", "R", "D">>
X_Invalid == <<"I", "n", "v", "a", "l", "i", "d">>
X_Continue == <<"C", "o", "n", "t", "i", "n", "u", "e">>

(***************************************************************************)
(* Program constants                                                       *)
(***************************************************************************)
\* wait_for_condition defaults and the two timeouts used, in ticks of 0.5 s
CHECK_INTERVAL == 1
PROCESS_TIMEOUT == 30
WINDOW_TIMEOUT == 60
\* a window qualifies only if width > 100 and height > 100
MIN_WINDOW_SIZE == 100
\* OCR confidence must exceed 30
MIN_CONF == 30
\* label-to-input-box horizontal offset of find_login_fields
LABEL_OFFSET == 100

None == 0

(***************************************************************************)
(* Environment: screen, windows, recognised text                           *)
(***************************************************************************)
\* pyautogui.size()
SCREEN_W == 1920
SCREEN_H == 1080

Win(t, vis, l, tp, w, h, mx) ==
  [exists |-> TRUE, title |-> t, visible |-> vis, left |-> l, top |-> tp,
   width |-> w, height |-> h, maximized |-> mx]

NoWin == [exists |-> FALSE, title |-> <<>>, visible |-> FALSE, left |-> 0,
          top |-> 0, width |-> 0, height |-> 0, maximized |-> FALSE]

\* a recognised word of pytesseract.image_to_data: text, conf and box
Tok(t, c, l, tp, w, h) ==
  [text |-> t, conf |-> c, left |-> l, top |-> tp, width |-> w, height |-> h]

\* what the screen can show, in reading order
SceneBlank == << >>
SceneLoginForm == << Tok(X_Username, 91, 300, 300, 80, 20),
                     Tok(X_Password, 88, 300, 350, 80, 20) >>
SceneLoginError == << Tok(X_Invalid, 75, 300, 260, 60, 20),
                      Tok(X_Username, 91, 300, 300, 80, 20),
                      Tok(X_Password, 88, 300, 350, 80, 20) >>
SceneMain == << Tok(X_Welcome, 93, 200, 150, 70, 20),
                Tok(X_Dashboard, 80, 200, 200, 90, 20) >>
SceneFaint == << Tok(X_Username, 30, 300, 300, 80, 20) >>

Scenes == {SceneBlank, SceneLoginForm, SceneLoginError, SceneMain, SceneFaint}

(***************************************************************************)
(* Pure parts of the program                                               *)
(***************************************************************************)
\* the first index in 1..n that satisfies P, or None
FirstWhere(n, P(_)) ==
  IF \E i \in 1..n : P(i)
    THEN CHOOSE i \in 1..n : P(i) /\ \A j \in 1..(i - 1) : ~P(j)
    ELSE None

Clamp_upto(v, size) == Max2(0, Min2(v, size))

\* smart_click: max(0, min(v, size - 1))
Clamp(v, size) == Max2(0, Min2(v, size - 1))

\* any(title.lower() in window.title.lower() for title in window_titles)
TitleMatchesHint(t) ==
  \E k \in 1..Len(window_titles) : Contains(lower(window_titles[k]), lower(t))

\* the test of window_found and of the partial match of
\* refresh_window_reference on one enumerated window
IsCandidate_any_size(w) ==
  /\ w.exists
  /\ w.visible
  /\ TitleMatchesHint(w.title)

IsCandidate(w) ==
  /\ w.exists
  /\ w.visible
  /\ w.width > MIN_WINDOW_SIZE
  /\ w.height > MIN_WINDOW_SIZE
  /\ TitleMatchesHint(w.title)

\* window_found: the first enumerated window that qualifies, or None;
\* an enumeration error is caught and reported as "not found"
window_found(wins, enumOK) ==
  IF enumOK THEN FirstWhere(Len(wins), LAMBDA i : IsCandidate(wins[i]))
  ELSE None

\* refresh_window_reference: [ok, win] with the handle to hold afterwards
refresh_window_reference_fuzzy_first(h, wins, enumOK) ==
  IF h = None THEN [ok |-> FALSE, win |-> h]
  ELSE IF ~enumOK THEN [ok |-> FALSE, win |-> h]
  ELSE
    LET original_title == wins[h].title
        exact == FirstWhere(Len(wins), LAMBDA i :
                   wins[i].exists /\ wins[i].visible
                   /\ wins[i].title = original_title)
        partial == FirstWhere(Len(wins), LAMBDA i : IsCandidate(wins[i]))
    IN  IF partial # None THEN [ok |-> TRUE, win |-> partial]
        ELSE IF exact # None THEN [ok |-> TRUE, win |-> exact]
        ELSE [ok |-> FALSE, win |-> h]

refresh_window_reference(h, wins, enumOK) ==
  IF h = None THEN [ok |-> FALSE, win |-> h]
  ELSE IF ~enumOK THEN [ok |-> FALSE, win |-> h]
  ELSE
    LET original_title == wins[h].title
        exact == FirstWhere(Len(wins), LAMBDA i :
                   wins[i].exists /\ wins[i].visible
                   /\ wins[i].title = original_title)
        partial == FirstWhere(Len(wins), LAMBDA i : IsCandidate(wins[i]))
    IN  IF exact # None THEN [ok |-> TRUE, win |-> exact]
        ELSE IF partial # None THEN [ok |-> TRUE, win |-> partial]
        ELSE [ok |-> FALSE, win |-> h]

\* (left, top, width, height) of a window, as the callers build it
WindowRegion(w) == << w.left, w.top, w.width, w.height >>

NoRegion == << >>

\* ImageGrab.grab(bbox): bbox is (x0, y0, x1, y1); the words recognised in
\* the grabbed image are those lying inside the box, with coordinates
\* relative to its origin.  An empty box yields no image.
Grab(scr, bbox) ==
  IF bbox = NoRegion THEN scr
  ELSE
    LET inside(t) == /\ bbox[1] <= t.left
                     /\ t.left + t.width <= bbox[3]
                     /\ bbox[2] <= t.top
                     /\ t.top + t.height <= bbox[4]
        shift(t) == [t EXCEPT !.left = t.left - bbox[1],
                              !.top = t.top - bbox[2]]
        kept == SelectSeq(scr, inside)
    IN  [i \in 1..Len(kept) |-> shift(kept[i])]

\* find_text_on_screen: centres of the matching words, in screen coordinates
find_text_on_screen(text, region, scr, ocr) ==
  IF ~ocr THEN << >>
  ELSE
    LET data == Grab(scr, region)
        hit(t) == Contains(lower(text), lower(t.text)) /\ t.conf > MIN_CONF
        hits == SelectSeq(data, hit)
        pos(t) == LET x == t.left + t.width \div 2
                      y == t.top + t.height \div 2
                  IN  IF region # NoRegion
                        THEN << x + region[1], y + region[2] >>
                        ELSE << x, y >>
    IN  [i \in 1..Len(hits) |-> pos(hits[i])]

\* the first position found for the first label that is found, or << >>
FirstLabelHit(labels, region, scr, ocr) ==
  LET k == FirstWhere(Len(labels), LAMBDA i :
             Len(find_text_on_screen(labels[i], region, scr, ocr)) > 0)
  IN  IF k = None THEN << >>
      ELSE find_text_on_screen(labels[k], region, scr, ocr)[1]

NoFields == [f \in {} |-> << >>]

\* `if not fields:` before the positions relative to the window centre
UseCentreFallback_no_username(labelled) == "username" \notin DOMAIN labelled

UseCentreFallback(labelled) == DOMAIN labelled = {}

RefreshGate_ignored(ok) == TRUE

\* the early exit of find_login_fields when the handle cannot be refreshed
RefreshGate(ok) == ok

\* find_login_fields: [fields, win]; fields maps "username"/"password" to a
\* point, win is the handle held afterwards
find_login_fields(h, wins, scr, ocr, enumOK) ==
  IF h = None THEN [fields |-> NoFields, win |-> h, searched |-> FALSE]
  ELSE
    LET r == refresh_window_reference(h, wins, enumOK)
    IN  IF ~RefreshGate(r.ok)
          THEN [fields |-> NoFields, win |-> r.win, searched |-> FALSE]
        ELSE
          LET w == wins[r.win]
              region == WindowRegion(w)
              u == FirstLabelHit(username_labels, region, scr, ocr)
              p == FirstLabelHit(password_labels, region, scr, ocr)
              fu == IF u # << >>
                      THEN [f \in {"username"} |-> << u[1] + LABEL_OFFSET, u[2] >>]
                      ELSE NoFields
              fp == IF p # << >>
                      THEN [f \in {"password"} |-> << p[1] + LABEL_OFFSET, p[2] >>]
                      ELSE NoFields
              labelled == fu @@ fp
              center_x == w.left + Half(w.width)
              center_y == w.top + Half(w.height)
              byCenter == [f \in {"username", "password"} |->
                             IF f = "username" THEN << center_x, center_y - 60 >>
                             ELSE << center_x, center_y - 20 >>]
          IN  [fields |-> IF UseCentreFallback(labelled) THEN byCenter
                          ELSE labelled,
               win |-> r.win, searched |-> TRUE]

\* gw.getWindowsWithTitle: the enumerated (visible) windows whose title
\* contains the query, compared in upper case
getWindowsWithTitle(q, wins) ==
  SelectSeq([i \in 1..Len(wins) |-> i], LAMBDA i :
    wins[i].exists /\ wins[i].visible
    /\ Contains(upper(q), upper(wins[i].title)))

TitleVerdict_success_first(current_title) ==
  IF AnyIn(success_indicators, current_title) THEN "success"
  ELSE IF AnyIn(failure_indicators, current_title) THEN "failure"
  ELSE "none"

TitleVerdict_failure_only(current_title) ==
  IF AnyIn(failure_indicators, current_title) THEN "failure" ELSE "none"

\* verify_login_success, method 1: the verdict of the title
TitleVerdict(current_title) ==
  IF AnyIn(failure_indicators, current_title) THEN "failure"
  ELSE IF AnyIn(success_indicators, current_title) THEN "success"
  ELSE "none"

RegionVerdict_failure_first(region, scr, ocr) ==
  IF \E k \in 1..Len(failure_texts) :
       Len(find_text_on_screen(failure_texts[k], region, scr, ocr)) > 0
    THEN "failure"
  ELSE IF \E k \in 1..Len(success_texts) :
       Len(find_text_on_screen(success_texts[k], region, scr, ocr)) > 0
    THEN "success"
  ELSE "none"

\* verify_login_success, method 2: the verdict of the text in the window
RegionVerdict(region, scr, ocr) ==
  IF \E k \in 1..Len(success_texts) :
       Len(find_text_on_screen(success_texts[k], region, scr, ocr)) > 0
    THEN "success"
  ELSE IF \E k \in 1..Len(failure_texts) :
       Len(find_text_on_screen(failure_texts[k], region, scr, ocr)) > 0
    THEN "failure"
  ELSE "none"

\* verify_login_success, method 3: is a login form marker on the screen
FormVisible(scr, ocr) ==
  \E k \in 1..Len(login_form_texts) :
    Len(find_text_on_screen(login_form_texts[k], NoRegion, scr, ocr)) > 0

\* the order in which verify_login_success consults its three methods
Decide_region_first(tv, rv, form) ==
  IF rv = "success" THEN TRUE
  ELSE IF rv = "failure" THEN FALSE
  ELSE IF tv = "failure" THEN FALSE
  ELSE IF tv = "success" THEN TRUE
  ELSE ~form

Decide_pessimistic(tv, rv, form) ==
  IF tv = "failure" THEN FALSE
  ELSE IF tv = "success" THEN TRUE
  ELSE IF rv = "success" THEN TRUE
  ELSE FALSE

Decide_form_ignored(tv, rv, form) ==
  IF tv = "failure" THEN FALSE
  ELSE IF tv = "success" THEN TRUE
  ELSE IF rv = "success" THEN TRUE
  ELSE IF rv = "failure" THEN FALSE
  ELSE TRUE

Decide(tv, rv, form) ==
  IF tv = "failure" THEN FALSE
  ELSE IF tv = "success" THEN TRUE
  ELSE IF rv = "success" THEN TRUE
  ELSE IF rv = "failure" THEN FALSE
  ELSE ~form

\* verify_login_success: [result, win, title, tv, rv, form]; win is the
\* handle held afterwards, title the lower-cased title that was examined
\* (<< >> when the title check was skipped or raised), resolved whether
\* getWindowsWithTitle gave the handle anew, searched whether the text
\* searches inside the window rectangle were run
verify_login_success_drops(h, wins, scr, ocr, titleOK) ==
  LET found == IF h # None /\ titleOK
                 THEN getWindowsWithTitle(wins[h].title, wins)
                 ELSE << >>
      resolved == Len(found) > 0
      h2 == IF resolved THEN found[1] ELSE None
      current_title == IF resolved THEN lower(wins[h2].title) ELSE << >>
      tv == IF resolved THEN TitleVerdict(current_title) ELSE "none"
      rv == IF h2 # None
              THEN RegionVerdict(WindowRegion(wins[h2]), scr, ocr)
              ELSE "none"
      form == FormVisible(scr, ocr)
  IN  [result |-> Decide(tv, rv, form), win |-> h2, resolved |-> resolved,
       searched |-> h2 # None,
       title |-> current_title, tv |-> tv, rv |-> rv, form |-> form]

verify_login_success(h, wins, scr, ocr, titleOK) ==
  LET found == IF h # None /\ titleOK
                 THEN getWindowsWithTitle(wins[h].title, wins)
                 ELSE << >>
      resolved == Len(found) > 0
      h2 == IF resolved THEN found[1] ELSE h
      current_title == IF resolved THEN lower(wins[h2].title) ELSE << >>
      tv == IF resolved THEN TitleVerdict(current_title) ELSE "none"
      rv == IF h2 # None
              THEN RegionVerdict(WindowRegion(wins[h2]), scr, ocr)
              ELSE "none"
      form == FormVisible(scr, ocr)
  IN  [result |-> Decide(tv, rv, form), win |-> h2, resolved |-> resolved,
       searched |-> h2 # None,
       title |-> current_title, tv |-> tv, rv |-> rv, form |-> form]

(***************************************************************************)
(* State                                                                   *)
(***************************************************************************)
VARIABLES
  \* environment
  exe_exists,      \* os.path.exists(cabas_exe_path)
  procs,           \* running processes whose exe contains 'CAB'
  windows,         \* the windows in enumeration order
  screen,          \* the words OCR would recognise on the screen
  screen_size,     \* pyautogui.size()
  \* DesktopCABASAutomation
  cabas_window,    \* self.cabas_window: index into windows, or None
  process,         \* self.process is set
  \* control
  pc,              \* position in the program
  elapsed,         \* time.time() - start_time inside wait_for_condition
  wait_args,       \* << timeout, check_interval >> of the running wait
  timed_out_at,    \* elapsed time at which the last wait returned False
  fields,          \* result of find_login_fields
  center,          \* << center_x, center_y >> of the running strategy
  attempt,         \* loop index i of the running strategy (from 1)
  button,          \* loop index of continue_button_positions (from 1)
  strat_result,    \* return value of the strategy that just returned
  verdict,         \* what the last verify_login_success saw and returned
  launch_result,   \* return value of launch_cabas
  login_result,    \* return value of login_to_cabas
  test_result,     \* return value of test_cabas_connection
  \* observation
  found,           \* what discovery saw in the window it selected
  find_obs,        \* what the last find_login_fields call went through
  invoked,         \* strategies invoked by login_to_cabas, in order
  completed,       \* strategies that returned True
  verified,        \* strategies after which verification ran
  last_click,      \* the click call of the step just taken, if any: the
                   \* point asked for, the point handed to the operating
                   \* system and whether the click was dispatched
  dispatched,      \* the step just taken dispatched a click or keystroke
  stratDispatched, \* the running strategy has dispatched an input
  everDispatched,  \* some input has been dispatched
  cursor_at_corner, \* the mouse cursor is at the fail-safe point (0, 0)
  failsafe_fired,  \* pyautogui's fail-safe has raised in this login call
  submits,         \* submit actions the running strategy has dispatched
  escaped,         \* public operations an exception has propagated out of
  screenshots,     \* file names passed to take_screenshot
  spawns,          \* number of subprocess.Popen calls
  launches,        \* one record per launch_cabas call: what it observed
  \* close_cabas
  scan,            \* processes the scan of close_cabas has yet to visit
  close_log,       \* what close_cabas has attempted so far, in order
  \* main.py
  refresh_obs,     \* outcome of the refresh_window_reference call of the
                   \* step just taken: "ok", "failed", or "none" without one
  ocr_obs,         \* the find_text_on_screen call examined on its own:
                   \* its arguments and what it returned
  setup_obs,       \* the setup_window call examined on its own: its
                   \* handle, the outcomes of its steps, what it called
  refresh_test,    \* the refresh_window_reference call examined on its
                   \* own: the handle before, the result, the handle after
  shot_saved,      \* whether the screenshot login_to_cabas took on its way
                   \* out was saved ("none" outside that moment)
  det_log,         \* input calls the detection strategy has made, in
                   \* order, each with whether it was dispatched
  cleanups,        \* number of calls of cleanup
  exit_code        \* the code passed to sys.exit, once it was called

envVars == << exe_exists, procs, windows, screen, screen_size >>
objVars == << cabas_window, process >>
waitVars == << elapsed, wait_args, timed_out_at >>
stratVars == << fields, center, attempt, button, strat_result, verdict >>
resVars == << launch_result, login_result, test_result >>
ctlVars == << pc, waitVars, stratVars, resVars >>
dispatchVars == << last_click, dispatched, stratDispatched,
                   everDispatched, cursor_at_corner, failsafe_fired, submits >>
inputVars == << dispatchVars, escaped >>

\* a step that calls no input primitive
DispatchIdle ==
  /\ last_click' = << >>
  /\ dispatched' = FALSE
  /\ UNCHANGED << stratDispatched, everDispatched, cursor_at_corner,
                  failsafe_fired, submits >>

\* a step that calls no input primitive and in which nothing is raised
InputIdle == DispatchIdle /\ UNCHANGED escaped
launchObs == << spawns, launches >>
obsVars == << found, find_obs, invoked, completed, verified, screenshots,
              launchObs >>
closeVars == << scan, close_log >>
mainVars == << cleanups, exit_code >>
traceVars == << ocr_obs, det_log, setup_obs, refresh_test, shot_saved >>
vars == << envVars, objVars, ctlVars, inputVars, obsVars, closeVars,
          mainVars, refresh_obs, traceVars >>

\* a step that does not call refresh_window_reference
NoRefreshCall == refresh_obs' = "none"

\* what a caller of refresh_window_reference got: callers holding no handle
\* do not call it
RefreshOutcome(h, ok) ==
  IF h = None THEN "none" ELSE IF ok THEN "ok" ELSE "failed"

(***************************************************************************)
(* The environment's choices                                               *)
(***************************************************************************)
\* index of the application's own window; the window before it belongs to
\* another program
Slots == << "other", "app" >>
APP == CHOOSE i \in 1..Len(Slots) : Slots[i] = "app"

NormalRect == << 100, 100, 800, 600 >>
FullRect == << 0, 0, 1920, 1080 >>

AppTitles == {T_CabServicePlatform, T_LoginCabServicePlatform, T_Dashboard,
              T_Cabas, T_CabasError}

\* the other program's window
Decoy == Win(T_Cabas, TRUE, 10, 10, 100, 80, FALSE)

AppWin(t, vis, r, mx) == Win(t, vis, r[1], r[2], r[3], r[4], mx)

\* title and visibility the application window can change to: any title
\* while shown, or hidden
AppLooks == { << t, TRUE >> : t \in AppTitles }
              \cup { << T_CabServicePlatform, FALSE >> }

\* the application window as it first appears
FirstLooks == { AppWin(T_CabServicePlatform, TRUE, NormalRect, FALSE),
                AppWin(T_CabServicePlatform, FALSE, NormalRect, FALSE),
                AppWin(T_Notepad, TRUE, NormalRect, FALSE) }

NoVerdict == [result |-> FALSE, after |-> "none"]
NoFind == [called |-> FALSE]
NoFound == << >>
NotTimedOut == -1
NoExit == -1
NoOcr == [called |-> FALSE]

NoSetup == [called |-> FALSE]

NoRefresh == [called |-> FALSE]

Init ==
  /\ exe_exists \in BOOLEAN
  /\ procs \in {{}, {"pre"}}
  /\ windows = << Decoy, NoWin >>
  /\ screen = SceneBlank
  /\ screen_size = << SCREEN_W, SCREEN_H >>
  /\ cabas_window = None
  /\ process = FALSE
  /\ pc \in {"main", "fatal"}
  /\ elapsed = 0
  /\ wait_args = << 0, 0 >>
  /\ timed_out_at = NotTimedOut
  /\ fields = NoFields
  /\ center = << 0, 0 >>
  /\ attempt = 0
  /\ button = 0
  /\ strat_result = FALSE
  /\ verdict = NoVerdict
  /\ launch_result = "none"
  /\ login_result = "none"
  /\ test_result = "none"
  /\ found = NoFound
  /\ find_obs = NoFind
  /\ invoked = << >>
  /\ completed = {}
  /\ verified = << >>
  /\ last_click = << >>
  /\ dispatched = FALSE
  /\ stratDispatched = FALSE
  /\ everDispatched = FALSE
  /\ cursor_at_corner = FALSE
  /\ failsafe_fired = FALSE
  /\ submits = 0
  /\ escaped = {}
  /\ screenshots = << >>
  /\ spawns = 0
  /\ launches = << >>
  /\ scan = << >>
  /\ close_log = << >>
  /\ cleanups = 0
  /\ exit_code = NoExit
  /\ refresh_obs = "none"
  /\ ocr_obs = NoOcr
  /\ det_log = << >>
  /\ setup_obs = NoSetup
  /\ refresh_test = NoRefresh
  /\ shot_saved = "none"

(***************************************************************************)
(* Exceptions                                                              *)
(***************************************************************************)
PublicOps == {"launch_cabas", "login_to_cabas", "verify_login_success",
              "find_login_fields", "refresh_window_reference",
              "setup_window", "close_cabas"}

Catches_but_refresh(frame) == frame # "refresh_window_reference"

\* the functions in which every statement that can raise lies inside a
\* try whose handler is `except Exception` (or a bare except) and does not
\* raise again
Catches(frame) ==
  frame \in {"wait_for_condition", "is_cabas_running", "launch_cabas",
             "find_and_setup_cabas_window", "window_found",
             "refresh_window_reference", "setup_window", "take_screenshot",
             "find_text_on_screen", "smart_click", "smart_type",
             "find_login_fields", "login_method_enhanced_detection",
             "login_method_fallback_coordinates", "login_method_screen_based",
             "login_to_cabas", "verify_login_success", "close_cabas",
             "test_cabas_connection", "cleanup"}

\* the frames an exception raised in stack[1] leaves before it is caught;
\* stack lists the active calls, innermost first
Propagated(stack) ==
  LET k == FirstWhere(Len(stack), LAMBDA i : Catches(stack[i]))
      n == IF k = None THEN Len(stack) ELSE k - 1
  IN  { stack[i] : i \in 1..n }

\* an exception is raised in stack[1] if `raised`
Escape(raised, stack) ==
  escaped' = escaped \cup
               (IF raised THEN Propagated(stack) \cap PublicOps ELSE {})

\* two exceptions, in two places of one step
Escape2(raised1, stack1, raised2, stack2) ==
  escaped' = escaped
               \cup (IF raised1 THEN Propagated(stack1) \cap PublicOps ELSE {})
               \cup (IF raised2 THEN Propagated(stack2) \cap PublicOps ELSE {})

(***************************************************************************)
(* wait_for_condition                                                      *)
(***************************************************************************)
\* the loop test: time.time() - start_time < timeout
WaitContinue_short(el, timeout) == el < timeout - 1

WaitContinue(el, timeout) == el < timeout

\* time.sleep(check_interval)
WaitSleep(el, check_interval) == el + check_interval

\* one pass through the loop of wait_for_condition at position `at`:
\* `holds` is the value of condition_func() (False when it raised)
WaitPass(at, holds, onTrue, onFalse) ==
  /\ pc = at
  /\ IF WaitContinue(elapsed, wait_args[1])
       THEN IF holds
              THEN /\ pc' = onTrue
                   /\ elapsed' = 0
                   /\ UNCHANGED timed_out_at
              ELSE /\ pc' = at
                   /\ elapsed' = WaitSleep(elapsed, wait_args[2])
                   /\ UNCHANGED timed_out_at
       ELSE /\ pc' = onFalse
            /\ elapsed' = 0
            /\ timed_out_at' = elapsed

(***************************************************************************)
(* launch_cabas, find_and_setup_cabas_window, setup_window                 *)
(***************************************************************************)
\* is_cabas_running: some process has 'CAB' in its executable path; an
\* error of the process scan is caught and reported as "not running"
is_cabas_running(ps, scanOK) == scanOK /\ ps # {}

PathGate_when_spawning(exists, running) == exists \/ running

\* `if not os.path.exists(self.cabas_exe_path): return False`, the first
\* statement of launch_cabas
PathGate(exists, running) == exists

SpawnNeeded_always(running) == TRUE

\* `if self.is_cabas_running(): ... else: subprocess.Popen(...)`
SpawnNeeded(running) == ~running

\* launch_cabas up to the first wait
LaunchCabas ==
  /\ pc = "launch"
  /\ \E scanOK \in BOOLEAN, popenOK \in BOOLEAN :
       LET running == is_cabas_running(procs, scanOK)
           passed == PathGate(exe_exists, running)
           spawn == passed /\ SpawnNeeded(running)
           seen == IF ~passed THEN "unchecked"
                   ELSE IF running THEN "running" ELSE "absent"
       IN  /\ launches' = Append(launches, [exists |-> exe_exists,
                                            observed |-> seen,
                                            spawned |-> spawn /\ popenOK])
           /\ Escape2(passed /\ ~scanOK,
                       << "is_cabas_running", "launch_cabas" >>,
                       spawn /\ ~popenOK, << "launch_cabas" >>)
           /\ IF ~passed
                THEN /\ launch_result' = "false"
                     /\ pc' = "test_after_launch"
                     /\ UNCHANGED << process, spawns, wait_args >>
                ELSE IF ~spawn
                  THEN /\ pc' = "discover"
                       /\ wait_args' = << WINDOW_TIMEOUT, CHECK_INTERVAL >>
                       /\ UNCHANGED << process, spawns, launch_result >>
                  ELSE IF popenOK
                    THEN /\ process' = TRUE
                         /\ spawns' = spawns + 1
                         /\ pc' = "wait_proc"
                         /\ wait_args' = << PROCESS_TIMEOUT, CHECK_INTERVAL >>
                         /\ UNCHANGED launch_result
                    ELSE /\ launch_result' = "false"
                         /\ pc' = "test_after_launch"
                         /\ UNCHANGED << process, spawns, wait_args >>
  /\ DispatchIdle
  /\ UNCHANGED << envVars, cabas_window, elapsed, timed_out_at, stratVars,
                  login_result, test_result, found, find_obs,
                  invoked, completed, verified, screenshots >>
  /\ UNCHANGED << closeVars, mainVars >>
  /\ NoRefreshCall
  /\ UNCHANGED traceVars

\* wait_for_condition(self.is_cabas_running, timeout=15.0)
WaitProcess ==
  /\ \E scanOK \in BOOLEAN :
       /\ WaitPass("wait_proc", is_cabas_running(procs, scanOK), "discover",
                   "launch_failed")
       /\ Escape(~scanOK, << "is_cabas_running", "wait_for_condition",
                             "launch_cabas" >>)
  /\ wait_args' = IF pc' = "discover"
                    THEN << WINDOW_TIMEOUT, CHECK_INTERVAL >>
                    ELSE wait_args
  /\ DispatchIdle
  /\ UNCHANGED << envVars, objVars, stratVars, resVars, obsVars >>
  /\ UNCHANGED << closeVars, mainVars >>
  /\ NoRefreshCall
  /\ UNCHANGED traceVars

\* wait_for_condition(window_found, timeout=30.0)
WaitWindow ==
  \E enumOK \in BOOLEAN :
    LET w == window_found(windows, enumOK)
    IN  /\ WaitPass("discover", w # None, "setup_launch", "launch_failed")
        /\ IF pc' = "setup_launch"
             THEN /\ cabas_window' = w
                  /\ found' = windows[w].title
             ELSE UNCHANGED << cabas_window, found >>
        /\ Escape(~enumOK, << "window_found", "wait_for_condition",
                              "find_and_setup_cabas_window", "launch_cabas" >>)
        /\ DispatchIdle
        /\ UNCHANGED << envVars, process, wait_args, stratVars, resVars,
                        find_obs, invoked, completed, verified,
                        screenshots, launchObs, closeVars, mainVars >>
        /\ NoRefreshCall
        /\ UNCHANGED traceVars

\* "CABAS process failed to start" / "CABAS window not found": return False
LaunchFailed ==
  /\ pc = "launch_failed"
  /\ launch_result' = "false"
  /\ pc' = "test_after_launch"
  /\ InputIdle
  /\ UNCHANGED << envVars, objVars, waitVars, stratVars, login_result,
                  test_result, obsVars >>
  /\ UNCHANGED << closeVars, mainVars >>
  /\ NoRefreshCall
  /\ UNCHANGED traceVars

\* window.maximize() as the window manager carries it out
Maximized(w) ==
  [w EXCEPT !.left = 0, !.top = 0, !.width = screen_size[1],
            !.height = screen_size[2], !.maximized = TRUE]

\* the calls setup_window makes on the window, in order: activate (and the
\* win32gui activation when it raised), maximize unless isMaximized, activate
SetupCalls_abort(activateOK, maximized) ==
  IF activateOK
    THEN << "activate" >> \o (IF maximized THEN << >> ELSE << "maximize" >>)
           \o << "activate" >>
    ELSE << "activate", "alt_activate" >>

SetupCalls(activateOK, maximized) ==
  << "activate" >>
    \o (IF activateOK THEN << >> ELSE << "alt_activate" >>)
    \o (IF maximized THEN << >> ELSE << "maximize" >>)
    \o << "activate" >>

\* setup_window: `if not self.cabas_window: return False`, the refresh whose
\* failure is only logged, the three steps each in its own try, return True
setup_window(h, wins, enumOK, activateOK, maximizeOK, frontOK) ==
  IF h = None
    THEN [result |-> FALSE, calls |-> << >>, win |-> h, wins |-> wins,
          was_maximized |-> FALSE]
    ELSE LET w == refresh_window_reference(h, wins, enumOK).win
             calls == SetupCalls(activateOK, wins[w].maximized)
         IN  [result |-> TRUE, calls |-> calls, win |-> w,
              was_maximized |-> wins[w].maximized,
              wins |-> IF maximizeOK /\ ~wins[w].maximized
                         THEN [wins EXCEPT ![w] = Maximized(@)]
                         ELSE wins]

\* setup_window, called by find_and_setup_cabas_window ("setup_launch") and
\* by login_method_enhanced_detection ("det_setup"); every sub-step may
\* raise and is caught
SetupWindow ==
  /\ pc \in {"setup_launch", "det_setup"}
  /\ \E enumOK \in BOOLEAN, activateOK \in BOOLEAN, maximizeOK \in BOOLEAN,
        frontOK \in BOOLEAN :
       LET r == refresh_window_reference(cabas_window, windows, enumOK)
           s == setup_window(cabas_window, windows, enumOK, activateOK,
                             maximizeOK, frontOK)
       IN  /\ cabas_window' = s.win
           /\ refresh_obs' = RefreshOutcome(cabas_window, r.ok)
           /\ Escape2(cabas_window # None /\ ~enumOK,
                       << "refresh_window_reference", "setup_window" >>,
                       cabas_window # None /\ ~maximizeOK,
                       << "setup_window" >>)
           /\ windows' = s.wins
           /\ IF pc = "setup_launch"
                THEN /\ launch_result' = IF s.result THEN "true" ELSE "false"
                     /\ pc' = "test_after_launch"
                ELSE /\ pc' = "det_find"
                     /\ UNCHANGED launch_result
  /\ DispatchIdle
  /\ UNCHANGED << exe_exists, procs, screen, screen_size, process,
                  elapsed, wait_args, timed_out_at, fields, center, attempt,
                  button,
                  strat_result, verdict, login_result, test_result,
                  obsVars >>
  /\ UNCHANGED << closeVars, mainVars >>
  /\ UNCHANGED traceVars

(***************************************************************************)
(* The environment while the program waits                                 *)
(***************************************************************************)
\* the spawned process shows up in the process table
ProcessStarts ==
  /\ pc = "wait_proc"
  /\ process
  /\ "own" \notin procs
  /\ procs' = procs \cup {"own"}
  /\ InputIdle
  /\ UNCHANGED << exe_exists, windows, screen, screen_size, objVars,
                  ctlVars, obsVars >>
  /\ UNCHANGED << closeVars, mainVars >>
  /\ NoRefreshCall
  /\ UNCHANGED traceVars

\* the application opens its window
WindowAppears ==
  /\ pc = "discover"
  /\ procs # {}
  /\ ~windows[APP].exists
  /\ \E w \in FirstLooks, s \in Scenes :
       /\ windows' = [windows EXCEPT ![APP] = w]
       /\ screen' = s
  /\ InputIdle
  /\ UNCHANGED << exe_exists, procs, screen_size, objVars, ctlVars,
                  obsVars >>
  /\ UNCHANGED << closeVars, mainVars >>
  /\ NoRefreshCall
  /\ UNCHANGED traceVars

(***************************************************************************)
(* Input primitives                                                        *)
(***************************************************************************)
\* the login method that is running, for the call stack of an exception
Method ==
  IF invoked = << >> THEN "none"
  ELSE CASE invoked[Len(invoked)] = "detection" ->
              "login_method_enhanced_detection"
         [] invoked[Len(invoked)] = "fallback" ->
              "login_method_fallback_coordinates"
         [] invoked[Len(invoked)] = "screen" -> "login_method_screen_based"

\* pyautogui.FAILSAFE = True: every pyautogui call first raises
\* FailSafeException if the cursor is at the fail-safe point
FailSafePoint == << 0, 0 >>

\* a click or keystroke reached the operating system
Dispatched ==
  /\ dispatched' = TRUE
  /\ stratDispatched' = TRUE
  /\ everDispatched' = TRUE

NotDispatched ==
  /\ dispatched' = FALSE
  /\ UNCHANGED << stratDispatched, everDispatched >>

\* the fail-safe check of a call: it cannot succeed with the cursor at the
\* fail-safe point, and raising there is the fail-safe firing
FailSafeCheck(ok) ==
  /\ cursor_at_corner => ~ok
  /\ failsafe_fired' = (failsafe_fired \/ cursor_at_corner)

\* a call that returned after dispatching a submit action
Submitted(ok, submit) ==
  submits' = IF ok /\ submit THEN submits + 1 ELSE submits

\* smart_click(x, y): clamp, click; an error of the click is logged only
smart_click(x, y) ==
  \E ok \in BOOLEAN :
    LET at == << Clamp(x, screen_size[1]), Clamp(y, screen_size[2]) >>
    IN  /\ FailSafeCheck(ok)
        /\ last_click' = [asked |-> << x, y >>, at |-> at, ok |-> ok]
        /\ IF ok THEN Dispatched /\ cursor_at_corner' = (at = FailSafePoint)
           ELSE NotDispatched /\ UNCHANGED cursor_at_corner
        /\ Submitted(ok, FALSE)
        /\ Escape(~ok, << "smart_click", Method, "login_to_cabas" >>)

\* smart_type(text): clear the field and type; an error at any keystroke is
\* logged only, the keystrokes before it have been dispatched
smart_type ==
  /\ \E ok \in BOOLEAN, keysSent \in BOOLEAN :
       /\ FailSafeCheck(ok)
       /\ ok => keysSent
       /\ cursor_at_corner => ~keysSent
       /\ IF keysSent THEN Dispatched ELSE NotDispatched
       /\ Escape(~ok, << "smart_type", Method, "login_to_cabas" >>)
  /\ Submitted(FALSE, FALSE)
  /\ last_click' = << >>
  /\ UNCHANGED cursor_at_corner

\* pyautogui.hotkey / typewrite called directly: `ok` tells whether the call
\* returned; if it raised, earlier keystrokes of the same call may have been
\* dispatched
raw_keys(ok) ==
  /\ FailSafeCheck(ok)
  /\ IF ok THEN Dispatched
     ELSE \E keysSent \in BOOLEAN :
            /\ cursor_at_corner => ~keysSent
            /\ IF keysSent THEN Dispatched ELSE NotDispatched
  /\ Submitted(FALSE, FALSE)
  /\ Escape(~ok, << Method, "login_to_cabas" >>)
  /\ last_click' = << >>
  /\ UNCHANGED cursor_at_corner

\* pyautogui.press(key) called directly: one keystroke, dispatched iff the
\* call returned; `submit` tells whether the key submits the form
raw_press(ok, submit) ==
  /\ FailSafeCheck(ok)
  /\ IF ok THEN Dispatched ELSE NotDispatched
  /\ Submitted(ok, submit)
  /\ Escape(~ok, << Method, "login_to_cabas" >>)
  /\ last_click' = << >>
  /\ UNCHANGED cursor_at_corner

\* pyautogui.click(x, y) called directly
raw_click(x, y, ok, submit) ==
  /\ FailSafeCheck(ok)
  /\ last_click' = [asked |-> << x, y >>, at |-> << x, y >>, ok |-> ok]
  /\ IF ok THEN Dispatched /\ cursor_at_corner' = (<< x, y >> = FailSafePoint)
     ELSE NotDispatched /\ UNCHANGED cursor_at_corner
  /\ Submitted(ok, submit)
  /\ Escape(~ok, << Method, "login_to_cabas" >>)

(***************************************************************************)
(* login_to_cabas                                                          *)
(***************************************************************************)
STRATEGIES == << "detection", "fallback", "screen" >>

FirstStep(name) ==
  CASE name = "detection" -> "det_start"
    [] name = "fallback" -> "fb_start"
    [] name = "screen" -> "sb_start"

\* the strategy that has been invoked last
Current == invoked[Len(invoked)]

\* take_screenshot(filename)
Shot(name) == screenshots' = Append(screenshots, name)

\* the screenshot login_to_cabas takes before it returns
TerminalShot_failed(way) == "login_failed.png"

TerminalShot(way) ==
  IF way = "verified" THEN "login_success.png" ELSE "login_failed.png"

\* take_screenshot catches a failure of ImageGrab.grab() or save() and
\* returns ""; its caller does not look at what it returns
LastShot(way) ==
  /\ Shot(TerminalShot(way))
  /\ \E saved \in BOOLEAN :
       shot_saved' = IF saved THEN "saved" ELSE "lost"
  /\ UNCHANGED << ocr_obs, det_log, setup_obs, refresh_test >>

\* "Starting CABAS login process"
LoginStart ==
  /\ pc = "login"
  /\ Shot("login_start.png")
  /\ pc' = "invoke"
  /\ InputIdle
  /\ UNCHANGED << envVars, objVars, waitVars, stratVars, resVars, found, find_obs, invoked, completed, verified, launchObs >>
  /\ UNCHANGED << closeVars, mainVars >>
  /\ NoRefreshCall
  /\ UNCHANGED traceVars

\* Method 1, Method 2, Method 3: the call of the next login method
InvokeStrategy ==
  /\ pc = "invoke"
  /\ Len(invoked) < Len(STRATEGIES)
  /\ LET name == STRATEGIES[Len(invoked) + 1]
     IN  /\ invoked' = Append(invoked, name)
         /\ pc' = FirstStep(name)
  /\ attempt' = 1
  /\ button' = 1
  /\ verdict' = NoVerdict
  /\ strat_result' = FALSE
  /\ find_obs' = NoFind
  /\ InputIdle
  /\ UNCHANGED << envVars, objVars, waitVars, fields, center, resVars,
                  found, completed, verified, screenshots, launchObs >>
  /\ UNCHANGED << closeVars, mainVars >>
  /\ NoRefreshCall
  /\ UNCHANGED traceVars

\* verify_login_success is called inside `if self.login_method_...():`
VerifyAfter_always(result) == TRUE

VerifyAfter(result) == result

\* `if self.login_method_...():` then time.sleep(5), else the next method
StrategyReturned ==
  /\ pc = "ret"
  /\ completed' = IF strat_result THEN completed \cup {Current}
                  ELSE completed
  /\ pc' = IF VerifyAfter(strat_result) THEN "settle" ELSE "invoke"
  /\ fields' = NoFields
  /\ center' = << 0, 0 >>
  /\ attempt' = 0
  /\ button' = 0
  /\ last_click' = << >>
  /\ dispatched' = FALSE
  /\ stratDispatched' = FALSE
  /\ submits' = 0
  /\ UNCHANGED << envVars, objVars, waitVars, strat_result, verdict, resVars,
                  everDispatched, cursor_at_corner,
                  failsafe_fired, escaped, found, find_obs, invoked,
                  verified, screenshots, launchObs >>
  /\ UNCHANGED << closeVars, mainVars >>
  /\ NoRefreshCall
  /\ det_log' = << >>
  /\ UNCHANGED << ocr_obs, setup_obs, refresh_test, shot_saved >>

\* verify_login_success() after a completed login method
Verify ==
  /\ pc = "settle"
  /\ \E titleOK \in BOOLEAN, ocr \in BOOLEAN :
       LET v == verify_login_success(cabas_window, windows, screen, ocr, titleOK)
       IN  /\ verdict' = [result |-> v.result, after |-> Current,
                          resolved |-> v.resolved, searched |-> v.searched,
                          title |-> v.title,
                          tv |-> v.tv, rv |-> v.rv, form |-> v.form]
           /\ cabas_window' = v.win
           /\ verified' = Append(verified, [after |-> Current,
                                            result |-> v.result])
           /\ Escape2(cabas_window # None /\ ~titleOK,
                       << "verify_login_success", "login_to_cabas" >>,
                       ~ocr, << "find_text_on_screen", "verify_login_success",
                                "login_to_cabas" >>)
  /\ pc' = "verified"
  /\ DispatchIdle
  /\ UNCHANGED << envVars, process, waitVars, fields, center, attempt, button,
                  strat_result, resVars, found, find_obs, invoked,
                  completed, screenshots, launchObs >>
  /\ UNCHANGED << closeVars, mainVars >>
  /\ NoRefreshCall
  /\ UNCHANGED traceVars

\* where login_to_cabas goes after a verification
AfterVerify_ignored(result) == "invoke"

AfterVerify(result) == IF result THEN "login_success" ELSE "invoke"

\* what login_to_cabas returns on each of its two ways out
LoginReturn_always(way) == "true"

LoginReturn(way) == IF way = "verified" THEN "true" ELSE "false"

\* `if self.verify_login_success():`
LoginAfterVerify ==
  /\ pc = "verified"
  /\ pc' = AfterVerify(verdict.result)
  /\ InputIdle
  /\ UNCHANGED << envVars, objVars, waitVars, stratVars, resVars, obsVars >>
  /\ UNCHANGED << closeVars, mainVars >>
  /\ NoRefreshCall
  /\ UNCHANGED traceVars

\* take_screenshot("login_success.png"); return True
LoginSucceeded ==
  /\ pc = "login_success"
  /\ LastShot("verified")
  /\ login_result' = LoginReturn("verified")
  /\ pc' = "test_after_login"
  /\ InputIdle
  /\ UNCHANGED << envVars, objVars, waitVars, stratVars, launch_result,
                  test_result, found, find_obs, invoked, completed,
                  verified, launchObs >>
  /\ UNCHANGED << closeVars, mainVars >>
  /\ NoRefreshCall

\* "All login methods failed": take_screenshot("login_failed.png"); return False
LoginExhausted ==
  /\ pc = "invoke"
  /\ Len(invoked) = Len(STRATEGIES)
  /\ LastShot("exhausted")
  /\ login_result' = LoginReturn("exhausted")
  /\ pc' = "test_after_login"
  /\ InputIdle
  /\ UNCHANGED << envVars, objVars, waitVars, stratVars, launch_result,
                  test_result, found, find_obs, invoked, completed,
                  verified, launchObs >>
  /\ UNCHANGED << closeVars, mainVars >>
  /\ NoRefreshCall

\* the application answers a submitted form while the program sleeps
AppReacts ==
  /\ pc = "settle"
  /\ windows[APP].exists
  /\ \E look \in AppLooks, s \in Scenes :
       /\ windows' = [windows EXCEPT ![APP].title = look[1],
                                     ![APP].visible = look[2]]
       /\ screen' = s
       /\ << windows', screen' >> # << windows, screen >>
  /\ InputIdle
  /\ UNCHANGED << exe_exists, procs, screen_size, objVars, ctlVars,
                  obsVars >>
  /\ UNCHANGED << closeVars, mainVars >>
  /\ NoRefreshCall
  /\ UNCHANGED traceVars

(***************************************************************************)
(* login_method_enhanced_detection                                         *)
(***************************************************************************)
StratUnchanged ==
  UNCHANGED << envVars, process, waitVars, resVars, found, invoked, completed,
               verified, launchObs >>

\* the strategy returns r
Return(r) == strat_result' = r /\ pc' = "ret"

\* an input call of the detection strategy has been made
Called(act, ok) ==
  /\ det_log' = Append(det_log, [act |-> act, ok |-> ok])
  /\ UNCHANGED << ocr_obs, setup_obs, refresh_test, shot_saved >>

DetStart ==
  /\ pc = "det_start"
  /\ Shot("login_attempt_start.png")
  /\ pc' = IF cabas_window # None THEN "det_setup" ELSE "det_find"
  /\ InputIdle
  /\ UNCHANGED << cabas_window, stratVars, find_obs >>
  /\ StratUnchanged
  /\ UNCHANGED << closeVars, mainVars >>
  /\ NoRefreshCall
  /\ UNCHANGED traceVars

\* fields = self.find_login_fields(); if 'username' in fields: ... else False
DetFindFields ==
  /\ pc = "det_find"
  /\ \E enumOK \in BOOLEAN, ocr \in BOOLEAN :
       LET r == find_login_fields(cabas_window, windows, screen, ocr, enumOK)
       IN  /\ fields' = r.fields
           /\ cabas_window' = r.win
           /\ refresh_obs' =
                RefreshOutcome(cabas_window,
                  refresh_window_reference(cabas_window, windows, enumOK).ok)
           /\ find_obs' =
                [called |-> TRUE,
                 had_handle |-> cabas_window # None,
                 searched |-> r.searched,
                 refreshed |-> refresh_window_reference(cabas_window, windows,
                                                        enumOK).ok,
                 by_label |->
                   /\ cabas_window # None
                   /\ refresh_window_reference(cabas_window, windows, enumOK).ok
                   /\ LET w == windows[r.win]
                      IN  \/ FirstLabelHit(username_labels, WindowRegion(w),
                                           screen, ocr) # << >>
                          \/ FirstLabelHit(password_labels, WindowRegion(w),
                                           screen, ocr) # << >>]
           /\ IF "username" \in DOMAIN r.fields
                THEN pc' = "det_click_user" /\ UNCHANGED strat_result
                ELSE Return(FALSE)
           /\ Escape2(cabas_window # None /\ ~enumOK,
                       << "refresh_window_reference", "find_login_fields",
                          "login_method_enhanced_detection", "login_to_cabas" >>,
                       find_obs'.refreshed /\ ~ocr,
                       << "find_text_on_screen", "find_login_fields",
                          "login_method_enhanced_detection", "login_to_cabas" >>)
  /\ DispatchIdle
  /\ UNCHANGED << center, attempt, button, verdict, screenshots >>
  /\ StratUnchanged
  /\ UNCHANGED << closeVars, mainVars >>
  /\ UNCHANGED traceVars

DetClickUser ==
  /\ pc = "det_click_user"
  /\ smart_click(fields["username"][1], fields["username"][2])
  /\ pc' = "det_type_user"
  /\ UNCHANGED << cabas_window, stratVars, find_obs, screenshots >>
  /\ StratUnchanged
  /\ UNCHANGED << closeVars, mainVars >>
  /\ NoRefreshCall
  /\ Called("click_username", dispatched')

\* what follows the typing of the username and of the password
DetAfterType_skip(at) == "det_enter"

DetAfterType(at) ==
  IF at = "det_type_user" THEN "det_to_pass" ELSE "det_enter"

\* smart_type(self.username) and smart_type(self.password)
DetType ==
  /\ pc \in {"det_type_user", "det_type_pass"}
  /\ smart_type
  /\ pc' = DetAfterType(pc)
  /\ UNCHANGED << cabas_window, stratVars, find_obs, screenshots >>
  /\ StratUnchanged
  /\ UNCHANGED << closeVars, mainVars >>
  /\ NoRefreshCall
  /\ Called(IF pc = "det_type_user" THEN "type_username"
            ELSE "type_password", dispatched')

\* click the password field if it was found, else press tab
DetToPassword ==
  /\ pc = "det_to_pass"
  /\ IF "password" \in DOMAIN fields
       THEN /\ smart_click(fields["password"][1], fields["password"][2])
            /\ pc' = "det_type_pass"
            /\ UNCHANGED strat_result
       ELSE \E ok \in BOOLEAN :
              /\ raw_press(ok, FALSE)
              /\ IF ok THEN pc' = "det_type_pass" /\ UNCHANGED strat_result
                 ELSE Return(FALSE)
  /\ UNCHANGED << cabas_window, fields, center, attempt, button, verdict,
                  find_obs, screenshots >>
  /\ StratUnchanged
  /\ UNCHANGED << closeVars, mainVars >>
  /\ NoRefreshCall
  /\ Called(IF "password" \in DOMAIN fields THEN "click_password" ELSE "tab",
            dispatched')

\* pyautogui.press('enter'); return True
DetEnter ==
  /\ pc = "det_enter"
  /\ \E ok \in BOOLEAN : raw_press(ok, TRUE) /\ Return(ok)
  /\ UNCHANGED << cabas_window, fields, center, attempt, button, verdict,
                  find_obs, screenshots >>
  /\ StratUnchanged
  /\ UNCHANGED << closeVars, mainVars >>
  /\ NoRefreshCall
  /\ Called("enter", dispatched')

(***************************************************************************)
(* login_method_fallback_coordinates                                       *)
(***************************************************************************)
\* coordinate_sets: << username_pos, password_pos >> for each set
coordinate_sets(c, size) ==
  << << << c[1], c[2] - 50 >>, << c[1], c[2] - 10 >> >>,
     << << c[1] - 50, c[2] - 30 >>, << c[1] - 50, c[2] + 10 >> >>,
     << << c[1] + 50, c[2] - 30 >>, << c[1] + 50, c[2] + 10 >> >>,
     << << Half(size[1]), Half(size[2]) - 60 >>,
        << Half(size[1]), Half(size[2]) - 20 >> >> >>

\* the reference point: the window's centre if the handle can be refreshed,
\* else the centre of the screen
\* centre of a window rectangle: left + width // 2, top + height // 2
WindowCentre(w) == << w.left + Half(w.width), w.top + Half(w.height) >>

\* `if self.cabas_window:` ... `if self.refresh_window_reference():`
UseWindowCentre_handle(h, ok) == h # None

UseWindowCentre_never(h, ok) == FALSE

UseWindowCentre(h, ok) == h # None /\ ok

FbStart ==
  /\ pc = "fb_start"
  /\ \E enumOK \in BOOLEAN :
       LET r == refresh_window_reference(cabas_window, windows, enumOK)
           w == windows[r.win]
       IN  /\ cabas_window' = r.win
           /\ refresh_obs' = RefreshOutcome(cabas_window, r.ok)
           /\ center' = IF UseWindowCentre(cabas_window, r.ok)
                          THEN WindowCentre(w)
                          ELSE << Half(screen_size[1]), Half(screen_size[2]) >>
       /\ Escape(cabas_window # None /\ ~enumOK,
                 << "refresh_window_reference",
                    "login_method_fallback_coordinates", "login_to_cabas" >>)
  /\ pc' = "fb_click_user"
  /\ DispatchIdle
  /\ UNCHANGED << fields, attempt, button, strat_result, verdict, find_obs, screenshots >>
  /\ StratUnchanged
  /\ UNCHANGED << closeVars, mainVars >>
  /\ UNCHANGED traceVars

FbClick ==
  /\ pc \in {"fb_click_user", "fb_click_pass"}
  /\ LET set == coordinate_sets(center, screen_size)[attempt]
         pos == IF pc = "fb_click_user" THEN set[1] ELSE set[2]
     IN  smart_click(pos[1], pos[2])
  /\ pc' = IF pc = "fb_click_user" THEN "fb_type_user" ELSE "fb_type_pass"
  /\ UNCHANGED << cabas_window, stratVars, find_obs, screenshots >>
  /\ StratUnchanged
  /\ UNCHANGED << closeVars, mainVars >>
  /\ NoRefreshCall
  /\ UNCHANGED traceVars

FbType ==
  /\ pc \in {"fb_type_user", "fb_type_pass"}
  /\ smart_type
  /\ pc' = IF pc = "fb_type_user" THEN "fb_click_pass" ELSE "fb_enter"
  /\ UNCHANGED << cabas_window, stratVars, find_obs, screenshots >>
  /\ StratUnchanged
  /\ UNCHANGED << closeVars, mainVars >>
  /\ NoRefreshCall
  /\ UNCHANGED traceVars

\* pyautogui.press('enter'); return True -- or, if it raised, the next set
FbEnter ==
  /\ pc = "fb_enter"
  /\ \E ok \in BOOLEAN :
       /\ raw_press(ok, TRUE)
       /\ IF ok THEN Return(TRUE) /\ UNCHANGED attempt
          ELSE IF attempt < Len(coordinate_sets(center, screen_size))
            THEN /\ attempt' = attempt + 1
                 /\ pc' = "fb_click_user"
                 /\ UNCHANGED strat_result
            ELSE Return(FALSE) /\ UNCHANGED attempt
  /\ UNCHANGED << cabas_window, fields, center, button, verdict, find_obs,
                  screenshots >>
  /\ StratUnchanged
  /\ UNCHANGED << closeVars, mainVars >>
  /\ NoRefreshCall
  /\ UNCHANGED traceVars

(***************************************************************************)
(* login_method_screen_based                                               *)
(***************************************************************************)
username_positions_seven(c) ==
  << << c[1], c[2] - 80 >>, << c[1], c[2] - 60 >>, << c[1], c[2] - 100 >>,
     << c[1], c[2] - 40 >>, << c[1], c[2] - 20 >>, << c[1], c[2] >>,
     << c[1], c[2] + 20 >> >>

username_positions(c) ==
  << << c[1], c[2] - 80 >>, << c[1], c[2] - 60 >>, << c[1], c[2] - 100 >>,
     << c[1], c[2] - 40 >>, << c[1], c[2] - 20 >>, << c[1], c[2] >> >>

continue_button_positions_four(c) ==
  << << c[1], c[2] + 40 >>, << c[1], c[2] + 60 >>, << c[1], c[2] + 20 >>,
     << c[1], c[2] + 80 >> >>

continue_button_positions(c) ==
  << << c[1], c[2] + 40 >>, << c[1], c[2] + 60 >>, << c[1], c[2] + 20 >>,
     << c[1], c[2] + 80 >>, << c[1], c[2] + 100 >> >>

\* except Exception: continue -- the next username position, or return False
SbNext ==
  IF attempt < Len(username_positions(center))
    THEN /\ attempt' = attempt + 1
         /\ pc' = "sb_click"
         /\ UNCHANGED strat_result
    ELSE Return(FALSE) /\ UNCHANGED attempt

SbStart ==
  /\ pc = "sb_start"
  /\ center' = << Half(screen_size[1]), Half(screen_size[2]) >>
  /\ pc' = "sb_click"
  /\ InputIdle
  /\ UNCHANGED << cabas_window, fields, attempt, button, strat_result, verdict,
                  find_obs, screenshots >>
  /\ StratUnchanged
  /\ UNCHANGED << closeVars, mainVars >>
  /\ NoRefreshCall
  /\ UNCHANGED traceVars

\* pyautogui.click(username_pos[0], username_pos[1])
SbClick ==
  /\ pc = "sb_click"
  /\ \E ok \in BOOLEAN :
       LET pos == username_positions(center)[attempt]
       IN  /\ raw_click(pos[1], pos[2], ok, FALSE)
           /\ IF ok THEN pc' = "sb_hotkey" /\ UNCHANGED << attempt, strat_result >>
              ELSE SbNext
  /\ button' = 1
  /\ UNCHANGED << cabas_window, fields, center, verdict, find_obs, screenshots >>
  /\ StratUnchanged
  /\ UNCHANGED << closeVars, mainVars >>
  /\ NoRefreshCall
  /\ UNCHANGED traceVars

SbKeysNext(at) ==
  CASE at = "sb_hotkey" -> "sb_type_user"
    [] at = "sb_type_user" -> "sb_tab"
    [] at = "sb_tab" -> "sb_type_pass"
    [] at = "sb_type_pass" -> "sb_button"

\* hotkey('ctrl', 'a'); typewrite(username); press('tab'); typewrite(password)
SbKeys ==
  /\ pc \in {"sb_hotkey", "sb_type_user", "sb_tab", "sb_type_pass"}
  /\ \E ok \in BOOLEAN :
       /\ IF pc = "sb_tab" THEN raw_press(ok, FALSE) ELSE raw_keys(ok)
       /\ IF ok THEN pc' = SbKeysNext(pc) /\ UNCHANGED << attempt, strat_result >>
          ELSE SbNext
  /\ UNCHANGED << cabas_window, fields, center, button, verdict, find_obs,
                  screenshots >>
  /\ StratUnchanged
  /\ UNCHANGED << closeVars, mainVars >>
  /\ NoRefreshCall
  /\ UNCHANGED traceVars

\* for btn_pos in continue_button_positions: click, break -- except: continue
SbButton ==
  /\ pc = "sb_button"
  /\ \E ok \in BOOLEAN :
       LET pos == continue_button_positions(center)[button]
       IN  /\ raw_click(pos[1], pos[2], ok, TRUE)
           /\ IF ok THEN Return(TRUE) /\ UNCHANGED button
              ELSE /\ UNCHANGED strat_result
                   /\ IF button < Len(continue_button_positions(center))
                        THEN button' = button + 1 /\ pc' = "sb_button"
                        ELSE UNCHANGED button /\ pc' = "sb_enter"
  /\ UNCHANGED << cabas_window, fields, center, attempt, verdict, find_obs,
                  screenshots >>
  /\ StratUnchanged
  /\ UNCHANGED << closeVars, mainVars >>
  /\ NoRefreshCall
  /\ UNCHANGED traceVars

\* if not button_clicked: pyautogui.press('enter')
SbEnter ==
  /\ pc = "sb_enter"
  /\ \E ok \in BOOLEAN :
       /\ raw_press(ok, TRUE)
       /\ IF ok THEN Return(TRUE) /\ UNCHANGED attempt
          ELSE SbNext
  /\ UNCHANGED << cabas_window, fields, center, button, verdict, find_obs,
                  screenshots >>
  /\ StratUnchanged
  /\ UNCHANGED << closeVars, mainVars >>
  /\ NoRefreshCall
  /\ UNCHANGED traceVars

(***************************************************************************)
(* close_cabas                                                             *)
(***************************************************************************)
\* sys.exit(0 if success else 1)
ExitCode_zero(success) == 0

ExitCode(success) == IF success THEN 0 ELSE 1

\* the end of the `test` command: cleanup calls close_cabas, which closes
\* the window, terminates the spawned process, then terminates every
\* matching process of the process table; each step may fail.  Then
\* sys.exit is called with the outcome of test_cabas_connection
CloseCabas ==
  /\ pc = "cleanup"
  /\ \E closed \in BOOLEAN :
       /\ IF cabas_window # None /\ closed
            THEN windows' = [windows EXCEPT ![cabas_window] = NoWin]
            ELSE UNCHANGED windows
       /\ Escape(cabas_window # None /\ ~closed, << "close_cabas", "cleanup" >>)
  /\ \E left \in SUBSET procs : procs' = left
  /\ pc' = "done"
  /\ cleanups' = cleanups + 1
  /\ exit_code' = ExitCode(test_result = "true")
  /\ DispatchIdle
  /\ UNCHANGED << exe_exists, screen, screen_size, objVars, waitVars,
                  stratVars, resVars, obsVars, closeVars >>
  /\ NoRefreshCall
  /\ UNCHANGED traceVars

(***************************************************************************)
(* main.py: the `test` command                                             *)
(***************************************************************************)
\* test_cabas_connection goes on to login_to_cabas only after a launch
\* that returned True
GoesOnToLogin_always(launched) == TRUE

GoesOnToLogin(launched) == launched = "true"

\* CABASAutomationSystem() raised: main prints the fatal error and exits
\* with code 1
FatalError ==
  /\ pc = "fatal"
  /\ pc' = "fatal_exit"
  /\ exit_code' = 1
  /\ InputIdle
  /\ UNCHANGED << envVars, objVars, waitVars, stratVars, resVars, obsVars,
                  closeVars, cleanups >>
  /\ NoRefreshCall
  /\ UNCHANGED traceVars

TestStart ==
  /\ pc = "main"
  /\ pc' = "launch"
  /\ InputIdle
  /\ UNCHANGED << envVars, objVars, waitVars, stratVars, resVars, obsVars >>
  /\ UNCHANGED << closeVars, mainVars >>
  /\ NoRefreshCall
  /\ UNCHANGED traceVars

TestAfterLaunch ==
  /\ pc = "test_after_launch"
  /\ IF GoesOnToLogin(launch_result)
       THEN pc' = "login" /\ UNCHANGED test_result
       ELSE pc' = "cleanup" /\ test_result' = "false"
  /\ InputIdle
  /\ UNCHANGED << envVars, objVars, waitVars, stratVars, launch_result,
                  login_result, obsVars >>
  /\ UNCHANGED << closeVars, mainVars >>
  /\ NoRefreshCall
  /\ UNCHANGED traceVars

TestAfterLogin ==
  /\ pc = "test_after_login"
  /\ IF login_result = "true"
       THEN Shot("test_login_success.png") /\ test_result' = "true"
       ELSE UNCHANGED screenshots /\ test_result' = "false"
  /\ pc' = "cleanup"
  /\ InputIdle
  /\ UNCHANGED << envVars, objVars, waitVars, stratVars, launch_result,
                  login_result, found, find_obs, invoked, completed,
                  verified, launchObs >>
  /\ UNCHANGED << closeVars, mainVars >>
  /\ NoRefreshCall
  /\ shot_saved' = "none"
  /\ UNCHANGED << ocr_obs, det_log, setup_obs, refresh_test >>

(***************************************************************************)
(* Specification                                                           *)
(***************************************************************************)
Next ==
  \/ TestStart \/ LaunchCabas \/ WaitProcess \/ ProcessStarts \/ WaitWindow
  \/ WindowAppears \/ LaunchFailed \/ SetupWindow \/ TestAfterLaunch
  \/ LoginStart \/ InvokeStrategy \/ StrategyReturned \/ AppReacts \/ Verify
  \/ LoginAfterVerify \/ LoginSucceeded \/ LoginExhausted
  \/ DetStart \/ DetFindFields \/ DetClickUser \/ DetType \/ DetToPassword
  \/ DetEnter
  \/ FbStart \/ FbClick \/ FbType \/ FbEnter
  \/ SbStart \/ SbClick \/ SbKeys \/ SbButton \/ SbEnter
  \/ TestAfterLogin \/ CloseCabas \/ FatalError

Spec == Init /\ [][Next]_vars

(***************************************************************************)
(* wait_for_condition on its own: any timeout and interval, a condition    *)
(* the environment decides at every check                                  *)
(***************************************************************************)
MaxTimeout == 8

InitWait ==
  /\ Init
  /\ pc = "main"
  /\ exe_exists = TRUE
  /\ procs = {}

WaitCall ==
  /\ pc = "main"
  /\ \E T \in 1..MaxTimeout, I \in 1..MaxTimeout : wait_args' = << T, I >>
  /\ pc' = "wait_test"
  /\ InputIdle
  /\ UNCHANGED << envVars, objVars, elapsed, timed_out_at, stratVars, resVars,
                  obsVars >>
  /\ UNCHANGED << closeVars, mainVars >>
  /\ NoRefreshCall
  /\ UNCHANGED traceVars

WaitTest ==
  /\ \E holds \in BOOLEAN : WaitPass("wait_test", holds, "wait_true", "wait_false")
  /\ InputIdle
  /\ UNCHANGED << envVars, objVars, wait_args, stratVars, resVars, obsVars >>
  /\ UNCHANGED << closeVars, mainVars >>
  /\ NoRefreshCall
  /\ UNCHANGED traceVars

NextWait == WaitCall \/ WaitTest

SpecWait == InitWait /\ [][NextWait]_vars

(***************************************************************************)
(* smart_click on its own: any point on any of a few screens               *)
(***************************************************************************)
MaxCoord == 6

ScreenSizes == { << 1920, 1080 >>, << 4, 3 >>, << 1, 1 >> }

TestCoords(size) ==
  (-MaxCoord..MaxCoord) \cup {size - 1, size, size + 1, 9999, -9999}

InitClick ==
  /\ Init
  /\ pc = "main"
  /\ exe_exists = TRUE
  /\ procs = {}

ClickSetup ==
  /\ pc = "main"
  /\ \E sz \in ScreenSizes : screen_size' = sz
  /\ pc' = "click_test"
  /\ InputIdle
  /\ UNCHANGED << exe_exists, procs, windows, screen, objVars, waitVars,
                  stratVars, resVars, obsVars >>
  /\ UNCHANGED << closeVars, mainVars >>
  /\ NoRefreshCall
  /\ UNCHANGED traceVars

ClickTest ==
  /\ pc = "click_test"
  /\ \E x \in TestCoords(screen_size[1]), y \in TestCoords(screen_size[2]) :
       smart_click(x, y)
  /\ pc' = "click_done"
  /\ UNCHANGED << envVars, objVars, waitVars, stratVars, resVars, obsVars >>
  /\ UNCHANGED << closeVars, mainVars >>
  /\ NoRefreshCall
  /\ UNCHANGED traceVars

NextClick == ClickSetup \/ ClickTest

SpecClick == InitClick /\ [][NextClick]_vars

(***************************************************************************)
(* launch_cabas called several times in a row, the application's process   *)
(* possibly exiting between two calls                                      *)
(***************************************************************************)
MaxLaunches == 2

\* the caller calls launch_cabas again after it returned
LaunchAgain ==
  /\ pc = "test_after_launch"
  /\ Len(launches) < MaxLaunches
  /\ pc' = "launch"
  /\ launch_result' = "none"
  /\ timed_out_at' = NotTimedOut
  /\ InputIdle
  /\ UNCHANGED << envVars, objVars, elapsed, wait_args, stratVars,
                  login_result, test_result, obsVars >>
  /\ UNCHANGED << closeVars, mainVars >>
  /\ NoRefreshCall
  /\ UNCHANGED traceVars

\* a process of the application exits; its window goes with the last one
ProcessExits ==
  /\ pc = "test_after_launch"
  /\ \E p \in procs :
       /\ procs' = procs \ {p}
       /\ windows' = IF procs' = {} THEN [windows EXCEPT ![APP] = NoWin]
                     ELSE windows
  /\ InputIdle
  /\ UNCHANGED << exe_exists, screen, screen_size, objVars, ctlVars,
                  obsVars >>
  /\ UNCHANGED << closeVars, mainVars >>
  /\ NoRefreshCall
  /\ UNCHANGED traceVars

NextLaunch ==
  \/ TestStart \/ LaunchCabas \/ WaitProcess \/ ProcessStarts \/ WaitWindow
  \/ WindowAppears \/ LaunchFailed \/ SetupWindow \/ LaunchAgain
  \/ ProcessExits

SpecLaunch == Init /\ [][NextLaunch]_vars

(***************************************************************************)
(* login_to_cabas after a launch that succeeded, with a user who may move  *)
(* the mouse cursor to the fail-safe point and away from it at any time    *)
(***************************************************************************)
\* the state in which launch_cabas has just returned True: the application
\* was spawned and its maximized window shows the login form
InitLogin ==
  /\ exe_exists = TRUE
  /\ procs = {"own"}
  /\ windows = << Decoy, AppWin(T_CabServicePlatform, TRUE, FullRect, TRUE) >>
  /\ screen = SceneLoginForm
  /\ screen_size = << SCREEN_W, SCREEN_H >>
  /\ cabas_window = APP
  /\ process = TRUE
  /\ pc = "login"
  /\ elapsed = 0
  /\ wait_args = << WINDOW_TIMEOUT, CHECK_INTERVAL >>
  /\ timed_out_at = NotTimedOut
  /\ fields = NoFields
  /\ center = << 0, 0 >>
  /\ attempt = 0
  /\ button = 0
  /\ strat_result = FALSE
  /\ verdict = NoVerdict
  /\ launch_result = "true"
  /\ login_result = "none"
  /\ test_result = "none"
  /\ found = T_CabServicePlatform
  /\ find_obs = NoFind
  /\ invoked = << >>
  /\ completed = {}
  /\ verified = << >>
  /\ last_click = << >>
  /\ dispatched = FALSE
  /\ stratDispatched = FALSE
  /\ everDispatched = FALSE
  /\ cursor_at_corner = FALSE
  /\ failsafe_fired = FALSE
  /\ submits = 0
  /\ escaped = {}
  /\ screenshots = << >>
  /\ spawns = 1
  /\ launches = << [exists |-> TRUE, observed |-> "absent", spawned |-> TRUE] >>
  /\ scan = << >>
  /\ close_log = << >>
  /\ cleanups = 0
  /\ exit_code = NoExit
  /\ refresh_obs = "none"
  /\ ocr_obs = NoOcr
  /\ det_log = << >>
  /\ setup_obs = NoSetup
  /\ refresh_test = NoRefresh
  /\ shot_saved = "none"

\* the user moves the cursor to the fail-safe point, or away from it
CursorMoves ==
  /\ pc \notin {"login", "test_after_login"}
  /\ cursor_at_corner' = ~cursor_at_corner
  /\ last_click' = << >>
  /\ dispatched' = FALSE
  /\ UNCHANGED << envVars, objVars, ctlVars, stratDispatched, everDispatched,
                  failsafe_fired, submits, escaped, obsVars >>
  /\ UNCHANGED << closeVars, mainVars >>
  /\ NoRefreshCall
  /\ UNCHANGED traceVars

NextFailsafe ==
  \/ LoginStart \/ InvokeStrategy \/ StrategyReturned \/ Verify
  \/ LoginAfterVerify \/ LoginSucceeded \/ LoginExhausted
  \/ DetStart \/ SetupWindow \/ DetFindFields \/ DetClickUser \/ DetType
  \/ DetToPassword \/ DetEnter
  \/ FbStart \/ FbClick \/ FbType \/ FbEnter
  \/ SbStart \/ SbClick \/ SbKeys \/ SbButton \/ SbEnter
  \/ CursorMoves

SpecFailsafe == InitLogin /\ [][NextFailsafe]_vars

(***************************************************************************)
(* login_to_cabas after a launch that succeeded, the application answering *)
(* while the program sleeps; every step of the program is eventually taken *)
(***************************************************************************)
LoginStep ==
  \/ LoginStart \/ InvokeStrategy \/ StrategyReturned \/ Verify
  \/ LoginAfterVerify \/ LoginSucceeded \/ LoginExhausted
  \/ DetStart \/ SetupWindow \/ DetFindFields \/ DetClickUser \/ DetType
  \/ DetToPassword \/ DetEnter
  \/ FbStart \/ FbClick \/ FbType \/ FbEnter
  \/ SbStart \/ SbClick \/ SbKeys \/ SbButton \/ SbEnter

NextLogin == LoginStep \/ AppReacts

SpecLogin == InitLogin /\ [][NextLogin]_vars /\ WF_vars(LoginStep)

(***************************************************************************)
(* login_to_cabas with an application that may redraw its window in either *)
(* size and show any mixture of texts while the program sleeps             *)
(***************************************************************************)
\* an error message above a welcome text and the login form
SceneMixed == << Tok(X_Invalid, 75, 300, 260, 60, 20),
                 Tok(X_Welcome, 93, 200, 150, 70, 20),
                 Tok(X_Username, 91, 300, 300, 80, 20) >>

\* an error message alone
SceneErrorOnly == << Tok(X_Invalid, 75, 300, 260, 60, 20) >>

MoreScenes == Scenes \cup {SceneMixed, SceneErrorOnly}

AppRedraws ==
  /\ pc = "settle"
  /\ windows[APP].exists
  /\ \E look \in AppLooks, r \in {NormalRect, FullRect}, s \in MoreScenes :
       /\ windows' = [windows EXCEPT
                        ![APP] = AppWin(look[1], look[2], r, r = FullRect)]
       /\ screen' = s
       /\ << windows', screen' >> # << windows, screen >>
  /\ InputIdle
  /\ NoRefreshCall
  /\ UNCHANGED << exe_exists, procs, screen_size, objVars, ctlVars,
                  obsVars, closeVars, mainVars >>
  /\ UNCHANGED traceVars

NextVerify == LoginStep \/ AppRedraws

SpecVerify == InitLogin /\ [][NextVerify]_vars

(***************************************************************************)
(* find_text_on_screen on its own: a window rectangle as region, a screen  *)
(* with words inside and outside of it, a text to look for                 *)
(***************************************************************************)
X_USERNAME == <<"U", "S", "E", "R", "N", "A", "M", "E">>

\* words in the window's top left part, in its bottom right corner, one
\* read with confidence 30, one in capitals with confidence 31, another
\* word, and one far from the window
SceneSpread == << Tok(X_Username, 91, 300, 200, 80, 20),
                  Tok(X_Username, 88, 820, 620, 60, 20),
                  Tok(X_Username, 30, 120, 120, 80, 20),
                  Tok(X_USERNAME, 31, 150, 150, 80, 20),
                  Tok(X_Password, 88, 300, 230, 80, 20),
                  Tok(X_Username, 95, 1500, 900, 80, 20) >>

OcrScenes == {SceneBlank, SceneLoginForm, SceneMain, SceneFaint, SceneSpread}

\* (left, top, width, height) of the windows searched
OcrRects == { << l, t, w, h >> : l \in {0, 100}, t \in {0, 100},
                                 w \in {400, 800}, h \in {300, 600} }

OcrTexts == {username_labels[1], login_form_texts[1], password_labels[2],
             success_texts[1]}

InitOcr ==
  /\ Init
  /\ pc = "main"
  /\ exe_exists = TRUE
  /\ procs = {}

OcrSetup ==
  /\ pc = "main"
  /\ \E r \in OcrRects, s \in OcrScenes :
       /\ windows' = [windows EXCEPT
                        ![APP] = AppWin(T_CabServicePlatform, TRUE, r, FALSE)]
       /\ screen' = s
  /\ pc' = "ocr_test"
  /\ InputIdle
  /\ NoRefreshCall
  /\ UNCHANGED << exe_exists, procs, screen_size, objVars, waitVars,
                  stratVars, resVars, obsVars, closeVars, mainVars,
                  traceVars >>

\* find_text_on_screen(text, window_region)
OcrTest ==
  /\ pc = "ocr_test"
  /\ \E text \in OcrTexts :
       ocr_obs' = [called |-> TRUE, text |-> text,
                   region |-> WindowRegion(windows[APP]),
                   result |-> find_text_on_screen(text,
                                WindowRegion(windows[APP]), screen, TRUE)]
  /\ pc' = "ocr_done"
  /\ InputIdle
  /\ NoRefreshCall
  /\ UNCHANGED << envVars, objVars, waitVars, stratVars, resVars, obsVars,
                  closeVars, mainVars, det_log, setup_obs, refresh_test,
                  shot_saved >>

NextOcr == OcrSetup \/ OcrTest

SpecOcr == InitOcr /\ [][NextOcr]_vars

(***************************************************************************)
(* The detection strategy on its own, on a login screen that may show any  *)
(* of the labels in a window of either size                                *)
(***************************************************************************)
SceneUserOnly == << Tok(X_Username, 91, 300, 300, 80, 20) >>

ScenePasswordOnly == << Tok(X_Password, 88, 300, 350, 80, 20) >>

DetectScenes == {SceneBlank, SceneLoginForm, SceneUserOnly, ScenePasswordOnly,
                 SceneFaint, SceneMain}

\* the application has drawn its login screen before login_to_cabas starts
AppDraws ==
  /\ pc = "login"
  /\ \E r \in {NormalRect, FullRect}, s \in DetectScenes :
       /\ windows' = [windows EXCEPT
                        ![APP] = AppWin(T_CabServicePlatform, TRUE, r,
                                        r = FullRect)]
       /\ screen' = s
       /\ << windows', screen' >> # << windows, screen >>
  /\ InputIdle
  /\ NoRefreshCall
  /\ UNCHANGED << exe_exists, procs, screen_size, objVars, ctlVars,
                  obsVars, closeVars, mainVars, traceVars >>

NextDetect ==
  \/ AppDraws \/ LoginStart \/ InvokeStrategy
  \/ DetStart \/ SetupWindow \/ DetFindFields \/ DetClickUser \/ DetType
  \/ DetToPassword \/ DetEnter

SpecDetect == InitLogin /\ [][NextDetect]_vars

(***************************************************************************)
(* login_to_cabas on displays of several sizes: pyautogui.size() is read   *)
(* by each strategy, whatever the display is                               *)
(***************************************************************************)
LoginScreens == { << SCREEN_W, SCREEN_H >>, << 640, 480 >>, << 320, 200 >> }

\* the display the session runs on, fixed before login_to_cabas starts
DisplayChosen ==
  /\ pc = "login"
  /\ \E size \in LoginScreens \ {screen_size} : screen_size' = size
  /\ InputIdle
  /\ NoRefreshCall
  /\ UNCHANGED << exe_exists, procs, windows, screen, objVars, ctlVars,
                  obsVars, closeVars, mainVars, traceVars >>

NextScreens == LoginStep \/ AppReacts \/ DisplayChosen

SpecScreens == InitLogin /\ [][NextScreens]_vars

(***************************************************************************)
(* setup_window on its own: with and without a handle, on a window that is *)
(* maximized or not, each of its calls on the window succeeding or raising *)
(***************************************************************************)
InitSetup ==
  /\ Init
  /\ pc = "main"
  /\ exe_exists = TRUE
  /\ procs = {}

SetupArrange ==
  /\ pc = "main"
  /\ \E h \in {None, APP}, r \in {NormalRect, FullRect}, t \in AppTitles :
       /\ windows' = [windows EXCEPT ![APP] = AppWin(t, TRUE, r, r = FullRect)]
       /\ cabas_window' = h
  /\ pc' = "setup_test"
  /\ InputIdle
  /\ NoRefreshCall
  /\ UNCHANGED << exe_exists, procs, screen, screen_size, process, waitVars,
                  stratVars, resVars, obsVars, closeVars, mainVars,
                  traceVars >>

\* setup_window()
SetupTest ==
  /\ pc = "setup_test"
  /\ \E enumOK \in BOOLEAN, activateOK \in BOOLEAN, maximizeOK \in BOOLEAN,
        frontOK \in BOOLEAN :
       LET s == setup_window(cabas_window, windows, enumOK, activateOK,
                             maximizeOK, frontOK)
       IN  /\ setup_obs' = [called |-> TRUE, handle |-> cabas_window,
                            activateOK |-> activateOK,
                            maximizeOK |-> maximizeOK, frontOK |-> frontOK,
                            was_maximized |-> s.was_maximized,
                            calls |-> s.calls, result |-> s.result]
           /\ windows' = s.wins
           /\ cabas_window' = s.win
           /\ refresh_obs' = RefreshOutcome(cabas_window,
                               refresh_window_reference(cabas_window, windows,
                                                        enumOK).ok)
  /\ pc' = "setup_done"
  /\ InputIdle
  /\ UNCHANGED << exe_exists, procs, screen, screen_size, process, waitVars,
                  stratVars, resVars, obsVars, closeVars, mainVars,
                  ocr_obs, det_log, refresh_test, shot_saved >>

NextSetup == SetupArrange \/ SetupTest

SpecSetup == InitSetup /\ [][NextSetup]_vars

(***************************************************************************)
(* refresh_window_reference on its own, over the windows that can be open  *)
(* beside the held one                                                     *)
(***************************************************************************)
OtherLooks == { Decoy,
                AppWin(T_Cabas, TRUE, NormalRect, FALSE),
                AppWin(T_CabServicePlatform, TRUE, NormalRect, FALSE),
                AppWin(T_Dashboard, TRUE, NormalRect, FALSE),
                AppWin(T_Notepad, TRUE, NormalRect, FALSE) }

HeldLooks == { NoWin }
               \cup { AppWin(t, v, NormalRect, FALSE) :
                        t \in {T_CabServicePlatform, T_Dashboard},
                        v \in BOOLEAN }

InitRefresh ==
  /\ Init
  /\ pc = "main"
  /\ exe_exists = TRUE
  /\ procs = {}

RefreshArrange ==
  /\ pc = "main"
  /\ \E h \in {None} \cup (1..Len(Slots)), o \in OtherLooks, w \in HeldLooks :
       /\ windows' = << o, w >>
       /\ cabas_window' = h
  /\ pc' = "refresh_test"
  /\ InputIdle
  /\ NoRefreshCall
  /\ UNCHANGED << exe_exists, procs, screen, screen_size, process, waitVars,
                  stratVars, resVars, obsVars, closeVars, mainVars,
                  traceVars >>

\* refresh_window_reference()
RefreshTest ==
  /\ pc = "refresh_test"
  /\ \E enumOK \in BOOLEAN :
       LET r == refresh_window_reference(cabas_window, windows, enumOK)
       IN  /\ refresh_test' = [called |-> TRUE, handle |-> cabas_window,
                               enumOK |-> enumOK, ok |-> r.ok, win |-> r.win]
           /\ cabas_window' = r.win
           /\ refresh_obs' = RefreshOutcome(cabas_window, r.ok)
  /\ pc' = "refresh_done"
  /\ InputIdle
  /\ UNCHANGED << envVars, process, waitVars, stratVars, resVars, obsVars,
                  closeVars, mainVars, ocr_obs, det_log, setup_obs,
                  shot_saved >>

NextRefresh == RefreshArrange \/ RefreshTest

SpecRefresh == InitRefresh /\ [][NextRefresh]_vars

(***************************************************************************)
(* close_cabas step by step, called after launch_cabas has returned        *)
(***************************************************************************)
\* the order in which psutil.process_iter lists the matching processes
ScanOrder == << "pre", "own" >>

Listed(ps) == SelectSeq(ScanOrder, LAMBDA p : p \in ps)

Logged(entries) == close_log' = close_log \o entries

\* the caller calls close_cabas
CloseCall ==
  /\ pc = "test_after_launch"
  /\ pc' = "close_window"
  /\ InputIdle
  /\ UNCHANGED << envVars, objVars, waitVars, stratVars, resVars, obsVars,
                  closeVars, mainVars >>
  /\ NoRefreshCall
  /\ UNCHANGED traceVars

\* if self.cabas_window: self.cabas_window.close(), a failure is logged
CloseWindow ==
  /\ pc = "close_window"
  /\ IF cabas_window # None
       THEN \E closed \in BOOLEAN :
              /\ windows' = IF closed
                              THEN [windows EXCEPT ![cabas_window] = NoWin]
                              ELSE windows
              /\ Logged(<< << "close", "window" >> >>)
       ELSE UNCHANGED << windows, close_log >>
  /\ pc' = "close_process"
  /\ InputIdle
  /\ UNCHANGED << exe_exists, procs, screen, screen_size, objVars, waitVars,
                  stratVars, resVars, obsVars, scan, mainVars >>
  /\ NoRefreshCall
  /\ UNCHANGED traceVars

\* `except Exception` around terminate() and wait(timeout=5): kill() is in
\* the handler
KillAfter_always(outcome) == TRUE

KillAfter(outcome) == outcome \in {"terminate_raised", "wait_timeout"}

\* if self.process: terminate() and wait(timeout=5); when either raises,
\* kill(), whose failure is logged
CloseProcess ==
  /\ pc = "close_process"
  /\ IF process
       THEN \E outcome \in {"exited", "terminate_raised", "wait_timeout"},
               killOK \in BOOLEAN :
              /\ Logged(<< << "terminate", "process" >> >>
                        \o (IF outcome = "terminate_raised"
                              THEN << << "raised", "process" >> >>
                              ELSE << << "wait", "process" >> >>)
                        \o (IF outcome = "wait_timeout"
                              THEN << << "timeout", "process" >> >>
                              ELSE << >>)
                        \o (IF KillAfter(outcome)
                              THEN << << "kill", "process" >> >>
                              ELSE << >>))
              /\ procs' = IF outcome = "exited" \/ killOK
                            THEN procs \ {"own"} ELSE procs
       ELSE UNCHANGED << procs, close_log >>
  /\ pc' = "close_iter"
  /\ InputIdle
  /\ UNCHANGED << exe_exists, windows, screen, screen_size, objVars,
                  waitVars, stratVars, resVars, obsVars, scan, mainVars >>
  /\ NoRefreshCall
  /\ UNCHANGED traceVars

\* for proc in psutil.process_iter(...) with 'CAB' in its exe: the listing
\* itself may raise, which ends the scan
CloseScanStart ==
  /\ pc = "close_iter"
  /\ \E iterOK \in BOOLEAN :
       IF iterOK
         THEN /\ scan' = Listed(procs)
              /\ Logged(<< << "scan", procs >> >>)
              /\ pc' = IF procs = {} THEN "close_return" ELSE "close_scan"
         ELSE /\ UNCHANGED << scan, close_log >>
              /\ pc' = "close_return"
  /\ InputIdle
  /\ UNCHANGED << envVars, objVars, waitVars, stratVars, resVars, obsVars,
                  mainVars >>
  /\ NoRefreshCall
  /\ UNCHANGED traceVars

\* what a raise inside the scan loop leaves of the scan: the loop has one
\* try around it, so the processes not yet visited are dropped
ScanAfterRaise(rest) == << >>

\* one iteration: proc.terminate(), sleep, if proc.is_running(): proc.kill()
CloseScanStep ==
  /\ pc = "close_scan"
  /\ LET p == Head(scan)
     IN  \E termOK \in BOOLEAN, running \in BOOLEAN, killOK \in BOOLEAN :
           /\ Logged(<< << "terminate", p >> >>
                     \o (IF termOK /\ running
                           THEN << << "is_running", p >>, << "kill", p >> >>
                           ELSE << >>))
           /\ procs' = IF termOK /\ (~running \/ killOK) THEN procs \ {p}
                       ELSE procs
           /\ scan' = IF termOK /\ (~running \/ killOK) THEN Tail(scan)
                      ELSE ScanAfterRaise(Tail(scan))
  /\ pc' = IF scan' = << >> THEN "close_return" ELSE "close_scan"
  /\ InputIdle
  /\ UNCHANGED << exe_exists, windows, screen, screen_size, objVars,
                  waitVars, stratVars, resVars, obsVars, mainVars >>
  /\ NoRefreshCall
  /\ UNCHANGED traceVars

\* return True; the window and process references are left as they were
CloseReturn ==
  /\ pc = "close_return"
  /\ pc' = "closed"
  /\ InputIdle
  /\ UNCHANGED << envVars, objVars, waitVars, stratVars, resVars, obsVars,
                  closeVars, mainVars >>
  /\ NoRefreshCall
  /\ UNCHANGED traceVars

NextClose ==
  \/ TestStart \/ LaunchCabas \/ WaitProcess \/ ProcessStarts \/ WaitWindow
  \/ WindowAppears \/ LaunchFailed \/ SetupWindow
  \/ CloseCall \/ CloseWindow \/ CloseProcess \/ CloseScanStart
  \/ CloseScanStep \/ CloseReturn

SpecClose == Init /\ [][NextClose]_vars

(***************************************************************************)
(* Properties                                                              *)
(***************************************************************************)
IsPrefix(a, b) == Len(a) <= Len(b) /\ SubSeq(b, 1, Len(a)) = a

\* login_to_cabas has returned
LoginReturned == login_result # "none"

\* C1: the strategies are invoked only in the order detection, fallback,
\* screen, each at most once; once a verification has returned Success no
\* further strategy is invoked and no further click or keystroke is
\* dispatched.
C1_StrategyOrder ==
  /\ [](IsPrefix(invoked, << "detection", "fallback", "screen" >>))
  /\ [][verdict.result =>
          invoked' = invoked /\ ~dispatched']_vars

C1_Witness ==
  /\ pc = "done"
  /\ verdict.result
  /\ verdict.after = "detection"
  /\ invoked = << "detection" >>
  /\ everDispatched

\* C2: login_to_cabas returns True exactly when some strategy completed an
\* attempt and the verification that followed it returned Success; when all
\* three strategies are exhausted without a Success it returns False.
C2_LoginResult ==
  LoginReturned =>
    /\ login_result = "true" <=>
         \E i \in 1..Len(verified) :
           verified[i].result /\ verified[i].after \in completed
    /\ (Len(invoked) = 3 /\ \A i \in 1..Len(verified) : ~verified[i].result)
         => login_result = "false"

C2_Witness ==
  /\ LoginReturned
  /\ login_result = "true"
  /\ Len(verified) = 2
  /\ ~verified[1].result
  /\ verified[2].result

\* a success-indicator text is readable on the screen
SuccessTextOnScreen ==
  \E i \in 1..Len(screen), k \in 1..Len(success_texts) :
    /\ Contains(lower(success_texts[k]), lower(screen[i].text))
    /\ screen[i].conf > 30

\* the title examined by the last verification contains one of the words
TitleHas(words) ==
  /\ verdict.after # "none"
  /\ verdict.resolved
  /\ \E k \in 1..Len(words) : Contains(words[k], verdict.title)

\* C3: when the re-resolved title contains a failure keyword and a
\* success-indicator text is visible on the screen at the same time, the
\* verification returns Failure.
C3_TitleFailureFirst ==
  (pc = "verified" /\ TitleHas(failure_indicators) /\ SuccessTextOnScreen)
    => ~verdict.result

C3_Witness ==
  /\ pc = "verified"
  /\ verdict.resolved
  /\ verdict.title = lower(T_CabasError)
  /\ verdict.rv = "success"
  /\ SuccessTextOnScreen
  /\ ~verdict.result

\* C4: with neither a failure nor a success keyword in the title, no
\* success or failure text found in the window region and no login form
\* marker found on the whole screen, the verification returns Success.
C4_NoEvidenceIsSuccess ==
  ( /\ pc = "verified"
    /\ ~TitleHas(failure_indicators)
    /\ ~TitleHas(success_indicators)
    /\ verdict.rv = "none"
    /\ ~verdict.form )
    => verdict.result

C4_Witness ==
  /\ pc = "verified"
  /\ verdict.resolved
  /\ verdict.title = lower(T_Cabas)
  /\ verdict.rv = "none"
  /\ ~verdict.form
  /\ verdict.result

\* neither the title nor the text in the window gave evidence
Inconclusive ==
  /\ verdict.after # "none"
  /\ ~TitleHas(failure_indicators)
  /\ ~TitleHas(success_indicators)
  /\ verdict.rv = "none"

\* C5 as stated: a verification without success or failure evidence in the
\* title or in the on-screen text counts as Failure and never lets
\* login_to_cabas return True.
C5_AmbiguousIsFailure ==
  (Inconclusive /\ ~verdict.form)
    => ~verdict.result /\ login_result # "true"

\* C5 amended: a verification without evidence in the title or in the text
\* of the window returns Failure exactly when a login form marker is still
\* readable on the screen; otherwise it returns Success and login_to_cabas,
\* once it returns, returns True.
C5_AmbiguousFollowsForm ==
  Inconclusive =>
    /\ verdict.result = ~verdict.form
    /\ (LoginReturned /\ ~verdict.form) => login_result = "true"

C5_Witness ==
  /\ LoginReturned
  /\ Inconclusive
  /\ ~verdict.form
  /\ verdict.result
  /\ login_result = "true"

\* C6: with 0 < I < T and a condition that never holds, wait_for_condition
\* returns False at an elapsed time t with T <= t <= T + I.
C6_WaitBounds ==
  (pc = "wait_false" /\ 0 < wait_args[2] /\ wait_args[2] < wait_args[1])
    => /\ wait_args[1] <= timed_out_at
       /\ timed_out_at <= wait_args[1] + wait_args[2]

C6_Witness ==
  /\ pc = "wait_false"
  /\ wait_args = << 5, 2 >>
  /\ timed_out_at = 6

\* C7: smart_click(x, y) dispatches at (max(0, min(x, W-1)),
\* max(0, min(y, H-1))); (-5, 9999) on 1920x1080 goes to (0, 1079) and a
\* point on the screen is dispatched unchanged.
C7_ClickClamped ==
  (last_click # << >> /\ last_click.ok) =>
    LET x == last_click.asked[1]
        y == last_click.asked[2]
        W == screen_size[1]
        H == screen_size[2]
        at == last_click.at
    IN  /\ at[1] = (IF x < 0 THEN 0 ELSE IF x > W - 1 THEN W - 1 ELSE x)
        /\ at[2] = (IF y < 0 THEN 0 ELSE IF y > H - 1 THEN H - 1 ELSE y)
        /\ (x = -5 /\ y = 9999 /\ W = 1920 /\ H = 1080) => at = << 0, 1079 >>

C7_Witness ==
  /\ last_click # << >>
  /\ last_click.ok
  /\ screen_size = << 1920, 1080 >>
  /\ last_click.asked = << -5, 9999 >>
  /\ last_click.at = << 0, 1079 >>

\* the detection strategy has returned after a find_login_fields call that
\* had no handle or could not re-resolve it
DetectionUnresolved ==
  /\ pc = "ret"
  /\ Current = "detection"
  /\ find_obs.called
  /\ (~find_obs.had_handle \/ ~find_obs.refreshed)

\* C8: when find_login_fields has no handle or cannot re-resolve it, it
\* returns the empty mapping, the detection strategy dispatches no click or
\* keystroke and returns False, and login_to_cabas goes on to the fallback
\* strategy.
C8_DetectionSkipped ==
  /\ [](DetectionUnresolved =>
          /\ DOMAIN fields = {}
          /\ ~stratDispatched
          /\ ~strat_result)
  /\ [][DetectionUnresolved => pc' = "invoke" /\ invoked' = invoked]_vars
  /\ [][(pc = "invoke" /\ invoked = << "detection" >>) =>
          invoked' = << "detection", "fallback" >>]_vars

C8_Witness ==
  /\ DetectionUnresolved
  /\ find_obs.had_handle
  /\ ~find_obs.refreshed
  /\ DOMAIN fields = {}

\* window discovery gave up after its timeout of 30 s
DiscoveryTimedOut ==
  /\ timed_out_at # NotTimedOut
  /\ wait_args[1] = 60

\* C9: if no matching window appears within the 30 s timeout, discovery
\* returns not-found and the login process fails without a strategy being
\* invoked; no click or keystroke is dispatched while no window handle has
\* been discovered.
C9_NoWindowNoLogin ==
  /\ cabas_window = None => (~everDispatched /\ invoked = << >>)
  /\ DiscoveryTimedOut =>
       /\ timed_out_at = 60
       /\ cabas_window = None
       /\ launch_result # "true"
       /\ login_result = "none"
       /\ test_result # "true"
       /\ pc = "done" => test_result = "false"

C9_Witness ==
  /\ DiscoveryTimedOut
  /\ pc = "done"
  /\ test_result = "false"
  /\ invoked = << >>

\* the scenario of C10: the detection strategy found a label, entered the
\* credentials, and the verification after it saw the title "Dashboard"
DashboardAfterDetection ==
  /\ exe_exists
  /\ procs # {}
  /\ found = T_CabServicePlatform
  /\ find_obs.called
  /\ find_obs.by_label
  /\ "detection" \in completed
  /\ verdict.after = "detection"
  /\ verdict.resolved
  /\ verdict.title = lower(T_Dashboard)

\* C10: in that scenario login_to_cabas returns True having invoked only the
\* detection strategy, and take_screenshot("login_success.png") was called.
C10_EndToEndSuccess ==
  /\ DashboardAfterDetection => verdict.result
  /\ (DashboardAfterDetection /\ LoginReturned) =>
       /\ login_result = "true"
       /\ invoked = << "detection" >>
       /\ \E i \in 1..Len(screenshots) : screenshots[i] = "login_success.png"

C10_Witness ==
  /\ DashboardAfterDetection
  /\ LoginReturned
  /\ login_result = "true"
  /\ test_result = "true"

\* the record of the launch_cabas call made last
LastLaunch == launches[Len(launches)]

\* C11: launch_cabas is idempotent with respect to spawning: a call that
\* observes a matching process spawns nothing and goes straight to window
\* discovery, so two such calls in a row spawn nothing at all; over any
\* sequence of calls a spawn happens only inside a call that observed no
\* matching process.
C11_LaunchIdempotent ==
  /\ [][spawns' # spawns =>
          /\ pc = "launch"
          /\ LastLaunch'.observed = "absent"
          /\ spawns' = spawns + 1]_vars
  /\ [][(pc = "launch" /\ pc' # "launch" /\ LastLaunch'.observed = "running")
          => /\ procs # {}
             /\ spawns' = spawns
             /\ pc' = "discover"]_vars

C11_Witness ==
  /\ Len(launches) = 2
  /\ launches[1].observed = "running"
  /\ launches[2].observed = "running"
  /\ spawns = 0
  /\ pc = "discover"

\* C14: launch_cabas with an executable path that does not exist returns
\* False without spawning a process and without starting window discovery,
\* whether or not a matching process is already running.
C14_MissingExecutable ==
  ~exe_exists =>
    /\ spawns = 0
    /\ ~process
    /\ pc \notin {"wait_proc", "discover", "setup_launch", "launch_failed"}
    /\ cabas_window = None
    /\ found = NoFound
    /\ launch_result \in {"none", "false"}
    /\ (launches # << >> => launch_result = "false")

C14_Witness ==
  /\ ~exe_exists
  /\ procs # {}
  /\ launches # << >>
  /\ launch_result = "false"

\* C12: no exception leaves launch_cabas, login_to_cabas,
\* verify_login_success, find_login_fields, refresh_window_reference,
\* setup_window or close_cabas: whichever underlying call fails, the
\* operation returns its failure or empty indicator.
C12_NoEscape ==
  /\ escaped = {}
  /\ launch_result \in {"none", "true", "false"}
  /\ login_result \in {"none", "true", "false"}
  /\ verdict.result \in BOOLEAN
  /\ (launches # << >> /\ LastLaunch.observed = "absent"
        /\ ~LastLaunch.spawned /\ pc # "launch")
       => launch_result = "false"
  /\ (find_obs.called /\ ~find_obs.refreshed) => fields = NoFields

\* the title lookup raised in the verification after the third login
\* method, and login_to_cabas returned False
C12_Witness ==
  /\ login_result = "false"
  /\ Len(verified) = 3
  /\ verdict.after = "screen"
  /\ ~verdict.resolved
  /\ launch_result = "true"

\* C13: once pyautogui's fail-safe has fired during login_to_cabas, no
\* further click or keystroke of that login call is dispatched.
C13_FailSafeAborts == [][failsafe_fired => ~dispatched']_vars

\* the matching processes the scan of close_cabas listed
Scanned == UNION { e[2] : e \in { close_log[i] : i \in 1..Len(close_log) }
                            \cap ({"scan"} \X SUBSET {"pre", "own"}) }

Attempted(op, target) ==
  \E i \in 1..Len(close_log) : close_log[i] = << op, target >>

\* C15: in close_cabas no failed step keeps a later step from being
\* attempted: the window close is attempted when a handle is held, the
\* spawned process is given terminate when a reference is held, and every
\* matching process the scan listed is given terminate.
C15_EveryStepAttempted ==
  pc = "closed" =>
    /\ cabas_window # None => Attempted("close", "window")
    /\ process => Attempted("terminate", "process")
    /\ \A p \in Scanned : Attempted("terminate", p)

\* C16: the instance holds no window handle before the first successful
\* discovery, and none after close_cabas has returned.
C16_HandleLifecycle ==
  /\ found = NoFound => cabas_window = None
  /\ pc = "closed" => cabas_window = None

\* C17: the `test` command exits with code 0 exactly when launch and login
\* both succeeded and with code 1 otherwise, a fatal initialization error
\* included; on both paths of the test cleanup has run before the exit.
C17_ExitCode ==
  /\ exit_code \in {NoExit, 0, 1}
  /\ pc = "done" <=> exit_code # NoExit /\ test_result # "none"
  /\ pc = "done" =>
       /\ exit_code = 0 <=> launch_result = "true" /\ login_result = "true"
       /\ cleanups = 1
  /\ pc = "fatal_exit" => exit_code = 1 /\ launch_result = "none"
  /\ exit_code = NoExit => pc \notin {"done", "fatal_exit"}

\* the test exits with 0 after a login, and a run exits with 1 after a
\* launch that succeeded and a login that failed
C17_Witness ==
  /\ pc = "done"
  /\ exit_code = 1
  /\ cleanups = 1
  /\ launch_result = "true"
  /\ login_result = "false"

\* the number of credential-entry attempts the claim allows a strategy
AttemptBound(name) ==
  CASE name = "detection" -> 1
    [] name = "fallback" -> 4
    [] name = "screen" -> 6

\* C18: login_to_cabas is bounded and terminates: at most three strategy
\* invocations, each strategy at most once, at most three verifications,
\* at most 1, 4 and 6 credential-entry attempts in the three strategies
\* (11 in all), at most one dispatched submit action per strategy, and the
\* call returns.
C18_LoginBounded ==
  /\ [](/\ Len(invoked) <= 3
        /\ \A i, j \in 1..Len(invoked) : i < j => invoked[i] # invoked[j]
        /\ Len(verified) <= 3
        /\ invoked # << >> => attempt <= AttemptBound(Current)
        /\ submits <= 1)
  /\ <>(login_result # "none")

\* the third strategy submits at its sixth position after two verifications
C18_Witness ==
  /\ pc = "ret"
  /\ Len(invoked) = 3
  /\ Len(verified) = 2
  /\ attempt = 6
  /\ submits = 1

\* the strategies after which verification has run
VerifiedAfter == { verified[i].after : i \in 1..Len(verified) }

\* C19: verification runs exactly once after each strategy that completed
\* and never after one that could not complete, which is followed directly
\* by the next strategy or by the end of the call.
C19_VerifyAfterCompleted ==
  /\ [](/\ Cardinality(VerifiedAfter) = Len(verified)
        /\ VerifiedAfter = IF pc = "settle" THEN completed \ {Current}
                           ELSE completed)
  /\ [][pc = "ret" /\ ~strat_result =>
          pc' = "invoke" /\ verified' = verified]_vars
  /\ [][pc = "invoke" =>
          /\ verified' = verified
          /\ \/ Len(invoked') = Len(invoked) + 1
             \/ login_result' = "false"]_vars
  /\ [][pc = "ret" /\ strat_result => pc' = "settle"]_vars
  /\ [][pc = "settle" /\ pc' # "settle" =>
          /\ Len(verified') = Len(verified) + 1
          /\ verified'[Len(verified')].after = Current]_vars

\* the first strategy could not complete, the second did and was verified
C19_Witness ==
  /\ invoked = << "detection", "fallback" >>
  /\ completed = {"fallback"}
  /\ Len(verified) = 1
  /\ verified[1].after = "fallback"
  /\ pc = "verified"

\* C20: a text search constrained to the window rectangle is run only with
\* a handle that was re-resolved just before in the same operation, in
\* find_login_fields and in verify_login_success.
C20_SearchAfterResolution ==
  /\ find_obs.called /\ find_obs.searched => find_obs.refreshed
  /\ verdict.after # "none" /\ verdict.searched => verdict.resolved

\* pyautogui.size() // 2 on both axes
ScreenCentre == << Half(screen_size[1]), Half(screen_size[2]) >>

\* the step just taken was setup_window, find_login_fields or the start of
\* the fallback strategy, and its refresh_window_reference call failed
SetupRefreshFailed ==
  refresh_obs = "failed" /\ pc \in {"test_after_launch", "det_find"}

FindRefreshFailed ==
  refresh_obs = "failed" /\ pc \in {"det_click_user", "ret"}

FallbackRefreshFailed == refresh_obs = "failed" /\ pc = "fb_click_user"

\* C21 as stated: after a failed refresh_window_reference each of the three
\* callers goes on with the handle it held: setup_window sets the window
\* up, find_login_fields searches its rectangle, the fallback strategy
\* takes its centre.
C21_StaleHandleUsed ==
  /\ SetupRefreshFailed =>
       cabas_window # None /\ (pc = "test_after_launch" => launch_result = "true")
  /\ FindRefreshFailed => cabas_window # None /\ find_obs.searched
  /\ FallbackRefreshFailed =>
       cabas_window # None /\ center = WindowCentre(windows[cabas_window])

\* C21 amended: a failed refresh_window_reference raises nothing and keeps
\* the handle; setup_window goes on and returns True, find_login_fields
\* returns the empty mapping without searching (the detection strategy
\* reports it could not complete), and the fallback strategy goes on with
\* the centre of the screen.
C21_FailedRefreshNonFatal ==
  /\ refresh_obs = "failed" => cabas_window # None /\ escaped = {}
  /\ SetupRefreshFailed /\ pc = "test_after_launch" => launch_result = "true"
  /\ FindRefreshFailed =>
       /\ ~find_obs.searched
       /\ fields = NoFields
       /\ pc = "ret"
       /\ ~strat_result
  /\ FallbackRefreshFailed => center = ScreenCentre

\* the fallback strategy starts from the screen centre although it holds a
\* handle whose rectangle has another centre
C21_Witness ==
  /\ FallbackRefreshFailed
  /\ windows[cabas_window].exists
  /\ WindowCentre(windows[cabas_window]) # ScreenCentre
  /\ center = ScreenCentre

\* a text of the list is readable somewhere on the screen
OnScreen(texts) ==
  \E k \in 1..Len(texts) :
    Len(find_text_on_screen(texts[k], NoRegion, screen, TRUE)) > 0

\* C22: verify_login_success does not return Success while OCR reads a
\* login-form marker on the screen and no success-indicator text is there.
C22_NoSuccessOverLoginForm ==
  (verdict.after # "none" /\ verdict.form /\ ~OnScreen(success_texts))
    => ~verdict.result

\* the title of the window held contains one of the words, letter case
\* set aside
HeldTitleHas(words) ==
  \E k \in 1..Len(words) :
    Contains(upper(words[k]), upper(windows[cabas_window].title))

\* C23: a re-resolved title with a failure keyword gives Failure even when
\* it also has a success keyword; a success keyword gives Success only
\* when no failure keyword matched; keywords match as substrings without
\* regard to letter case.
C23_TitleFailureBeforeSuccess ==
  (pc = "verified" /\ verdict.resolved) =>
    /\ HeldTitleHas(failure_indicators) =>
         verdict.tv = "failure" /\ ~verdict.result
    /\ (~HeldTitleHas(failure_indicators) /\ HeldTitleHas(success_indicators))
         => verdict.tv = "success" /\ verdict.result
    /\ (~HeldTitleHas(failure_indicators) /\ ~HeldTitleHas(success_indicators))
         => verdict.tv = "none"

\* 'Login - CAB Service Platform' has both 'login' and 'platform'
C23_Witness ==
  /\ pc = "verified"
  /\ verdict.resolved
  /\ windows[cabas_window].title = T_LoginCabServicePlatform
  /\ HeldTitleHas(success_indicators)
  /\ verdict.tv = "failure"
  /\ ~verdict.result

\* the scan of the rectangle of the window held reads one of the texts
RegionHas(texts) ==
  \E k \in 1..Len(texts) :
    Len(find_text_on_screen(texts[k], WindowRegion(windows[cabas_window]),
                            screen, TRUE)) > 0

\* C24: when the title decides nothing, a success text found in the window
\* region gives Success whatever else is shown, a failure text decides only
\* when no success text was found, and the login-form markers of the whole
\* screen decide only when neither was found.
C24_ScanOrder ==
  (pc = "verified" /\ verdict.tv = "none" /\ verdict.searched) =>
    /\ verdict.rv = "success" => verdict.result
    /\ verdict.rv = "failure" => ~verdict.result /\ ~RegionHas(success_texts)
    /\ verdict.rv = "none" => verdict.result = ~verdict.form
    /\ (verdict.rv # "none" /\ RegionHas(success_texts)) => verdict.result

\* 'Welcome' and 'Invalid' are both read in the window, and so is a form
\* marker: the result is Success
C24_Witness ==
  /\ pc = "verified"
  /\ verdict.tv = "none"
  /\ verdict.searched
  /\ RegionHas(success_texts)
  /\ RegionHas(failure_texts)
  /\ verdict.form
  /\ verdict.result

\* the word lies inside the rectangle (left, top, width, height)
InRect(t, r) ==
  /\ r[1] <= t.left
  /\ t.left + t.width <= r[1] + r[3]
  /\ r[2] <= t.top
  /\ t.top + t.height <= r[2] + r[4]

\* the screen centres of the words of the rectangle that contain the text,
\* letter case set aside, and were read with confidence above 30
CentresInRect(text, r, scr) ==
  { << scr[i].left + scr[i].width \div 2, scr[i].top + scr[i].height \div 2 >> :
      i \in { j \in 1..Len(scr) : /\ InRect(scr[j], r)
                                  /\ Contains(upper(text), upper(scr[j].text))
                                  /\ scr[j].conf > 30 } }

\* C25: find_text_on_screen(text, (left, top, width, height)) returns the
\* screen centres of exactly the words inside that rectangle which contain
\* the text and were read with confidence above 30.
C25_RegionSearch ==
  pc = "ocr_done" =>
    { ocr_obs.result[i] : i \in 1..Len(ocr_obs.result) }
      = CentresInRect(ocr_obs.text, ocr_obs.region, screen)

\* the positions find_login_fields derives from the window centre
CentreFields ==
  LET c == WindowCentre(windows[cabas_window])
  IN  [f \in {"username", "password"} |->
         IF f = "username" THEN << c[1], c[2] - 60 >> ELSE << c[1], c[2] - 20 >>]

\* find_login_fields has just searched the window for labels
FieldsSearched ==
  /\ pc \in {"det_click_user", "ret"}
  /\ find_obs.called
  /\ find_obs.searched

\* C26: find_login_fields returns the positions relative to the window
\* centre exactly when it found neither label; the mapping has no key but
\* username and password; when a label was found, each key is there exactly
\* when its own label was found, so with a password label alone there is
\* no username entry and the detection strategy returns without input.
C26_CentreFallback ==
  FieldsSearched =>
    /\ DOMAIN fields \subseteq {"username", "password"}
    /\ ~find_obs.by_label <=> fields = CentreFields
    /\ find_obs.by_label =>
         /\ "username" \in DOMAIN fields <=> RegionHas(username_labels)
         /\ "password" \in DOMAIN fields <=> RegionHas(password_labels)
    /\ "username" \notin DOMAIN fields =>
         pc = "ret" /\ ~strat_result /\ ~stratDispatched

\* only the password label is read: no username entry, detection skipped
C26_Witness ==
  /\ FieldsSearched
  /\ find_obs.by_label
  /\ ~RegionHas(username_labels)
  /\ DOMAIN fields = {"password"}
  /\ pc = "ret"
  /\ ~strat_result

\* the input calls of the detection strategy, in the order of the code
DetectionOrder ==
  << "click_username", "type_username",
     IF "password" \in DOMAIN fields THEN "click_password" ELSE "tab",
     "type_password", "enter" >>

DetActs == [i \in 1..Len(det_log) |-> det_log[i].act]

InDetection ==
  /\ pc \in {"det_click_user", "det_type_user", "det_to_pass",
             "det_type_pass", "det_enter", "ret"}
  /\ Current = "detection"
  /\ find_obs.called

InFallbackPair ==
  pc \in {"fb_click_user", "fb_type_user", "fb_click_pass", "fb_type_pass",
          "fb_enter"}

\* the pair in progress is given up: the next pair, or False after the last
PairAbandoned ==
  \/ attempt' = attempt + 1 /\ pc' = "fb_click_user"
  \/ attempt = Len(coordinate_sets(center, screen_size))
       /\ pc' = "ret" /\ ~strat_result'

\* C28: the fallback strategy tries its coordinate pairs in order, goes to
\* the next pair exactly when an input of the current pair failed (a click
\* or a typing that was not dispatched included), and returns True at the
\* first pair whose inputs all went through.
C28_PairErrorAdvances ==
  [][InFallbackPair =>
       /\ ~dispatched' <=> PairAbandoned
       /\ attempt' \in {attempt, attempt + 1}
       /\ (pc' = "ret" /\ strat_result') => (pc = "fb_enter" /\ dispatched')]_vars

\* login_method_fallback_coordinates has just fixed its reference point
FallbackStarted ==
  /\ pc = "fb_click_user"
  /\ attempt = 1
  /\ ~dispatched

C29_WitnessFailed ==
  /\ FallbackStarted
  /\ refresh_obs = "failed"
  /\ center = ScreenCentre
  /\ cabas_window # None
  /\ WindowCentre(windows[cabas_window]) # ScreenCentre

\* the five continue-button offsets below the centre, in the code's order
ButtonOffsets == << 40, 60, 20, 80, 100 >>

\* C30: in one attempt of the screen-based strategy the continue-button
\* positions are clicked in their order starting with the first, a click
\* that is dispatched ends the attempt with True and no further click, a
\* click that fails is followed by the next position, and enter is pressed
\* exactly after the fifth click has failed.
C30_ButtonThenEnter ==
  [][/\ (pc # "sb_button" /\ pc' = "sb_button") => button' = 1
     /\ pc = "sb_button" =>
          /\ button \in 1..Len(ButtonOffsets)
          /\ last_click'.asked = << center[1], center[2] + ButtonOffsets[button] >>
          /\ IF dispatched'
               THEN pc' = "ret" /\ strat_result'
               ELSE IF button < Len(ButtonOffsets)
                      THEN pc' = "sb_button" /\ button' = button + 1
                      ELSE pc' = "sb_enter"
     /\ pc' = "sb_enter" =>
          pc = "sb_button" /\ button = Len(ButtonOffsets) /\ ~dispatched'
     /\ pc = "sb_enter" => submits' = submits + (IF dispatched' THEN 1 ELSE 0)
    ]_vars

\* the fifth click has failed and enter is next
C30_Witness ==
  /\ pc = "sb_enter"
  /\ button = Len(ButtonOffsets)
  /\ last_click # << >>
  /\ ~last_click.ok
  /\ last_click.asked = << center[1], center[2] + 100 >>

\* C31: every click dispatched during login_to_cabas lands on the screen,
\* at x in 0..W-1 and y in 0..H-1, whatever the screen size and the window
\* rectangle are.
C31_ClicksOnScreen ==
  (last_click # << >> /\ last_click.ok) =>
    /\ last_click.at[1] \in 0..(screen_size[1] - 1)
    /\ last_click.at[2] \in 0..(screen_size[2] - 1)

\* the steps that type a credential right after the focus action of its field
TypesCredential ==
  pc \in {"det_type_user", "det_type_pass", "fb_type_user", "fb_type_pass",
          "sb_type_pass"}

\* C32: in every strategy a credential is typed only when the focus action
\* just before it (the click on the field, or the tab keystroke) was
\* dispatched: after a click that failed, nothing is typed.
C32_TypedAfterFocus ==
  [][/\ (TypesCredential /\ dispatched') => dispatched
     /\ pc' = "sb_hotkey" => dispatched']_vars

\* the calls on the window without the win32gui activation
WindowCalls ==
  SelectSeq(setup_obs.calls, LAMBDA c : c # "alt_activate")

\* C33: with a handle, setup_window activates, maximizes exactly when the
\* window is not maximized yet, and activates again, in this order, whatever
\* raised on the way, and returns True; without a handle it returns False
\* and calls nothing.
C33_SetupSteps ==
  setup_obs.called =>
    IF setup_obs.handle = None
      THEN ~setup_obs.result /\ setup_obs.calls = << >>
      ELSE /\ setup_obs.result
           /\ WindowCalls = IF setup_obs.was_maximized
                              THEN << "activate", "activate" >>
                              ELSE << "activate", "maximize", "activate" >>

\* every call on the window raised: all three were made, the result is True
C33_Witness ==
  /\ setup_obs.called
  /\ setup_obs.handle # None
  /\ ~setup_obs.activateOK /\ ~setup_obs.maximizeOK /\ ~setup_obs.frontOK
  /\ ~setup_obs.was_maximized
  /\ WindowCalls = << "activate", "maximize", "activate" >>
  /\ setup_obs.result

\* a visible window larger than 100 x 100 whose title has one of the hints
\* in it, letter case aside
Discoverable(w) ==
  /\ w.exists
  /\ w.visible
  /\ w.width > 100
  /\ w.height > 100
  /\ \E k \in 1..Len(window_titles) :
       Contains(lower(window_titles[k]), lower(w.title))

\* C34: the window discovery takes only a visible window wider and higher
\* than 100 whose title contains a hint; a poll on which the enumeration
\* raised counts as "not found yet", so the discovery gives up only when the
\* timeout has passed and a window that shows up before that is taken.
C34_Discovery ==
  [][pc = "discover" =>
       /\ pc' \in {"discover", "setup_launch", "launch_failed"}
       /\ pc' = "setup_launch" =>
            /\ cabas_window' # None
            /\ Discoverable(windows[cabas_window'])
       /\ pc' = "launch_failed" => elapsed >= wait_args[1]
       /\ (pc' = "discover" /\ elapsed' # elapsed) =>
            /\ elapsed < wait_args[1]
            /\ UNCHANGED cabas_window]_vars

\* polls have passed without a window, the timeout has not, and the window
\* is there now: the discovery is still polling
C34_Witness ==
  /\ pc = "discover"
  /\ elapsed > 0
  /\ elapsed < wait_args[1]
  /\ cabas_window = None
  /\ Discoverable(windows[APP])

\* the window that came up after the first poll has been taken
C34_WitnessTaken ==
  /\ pc = "setup_launch"
  /\ cabas_window = APP
  /\ Discoverable(windows[APP])
  /\ ~Discoverable(windows[1])

\* the visible windows whose title is exactly the title of the held window
ExactMatches ==
  {i \in 1..Len(windows) :
     /\ windows[i].exists
     /\ windows[i].visible
     /\ windows[i].title = windows[refresh_test.handle].title}

FuzzyMatches == {i \in 1..Len(windows) : Discoverable(windows[i])}

\* the first window of a non-empty set in the order of the enumeration
FirstOf(S) == CHOOSE i \in S : \A j \in S : i <= j

\* C35: refresh_window_reference takes the first visible window with
\* exactly the title of the held one if there is any, the first window
\* matching a title hint (visible, larger than 100 x 100) only if there is
\* none, and fails otherwise; without a handle it fails and holds no handle.
C35_ExactMatchFirst ==
  refresh_test.called =>
    IF refresh_test.handle = None
      THEN ~refresh_test.ok /\ cabas_window = None
      ELSE refresh_test.enumOK =>
             IF ExactMatches # {}
               THEN refresh_test.ok /\ cabas_window = FirstOf(ExactMatches)
               ELSE IF FuzzyMatches # {}
                 THEN refresh_test.ok /\ cabas_window = FirstOf(FuzzyMatches)
                 ELSE ~refresh_test.ok

\* the held window is found by its title although a window listed before
\* it matches a hint
C35_Witness ==
  /\ refresh_test.called
  /\ refresh_test.handle = APP
  /\ refresh_test.ok
  /\ cabas_window = APP
  /\ Discoverable(windows[1])
  /\ windows[1].title # windows[APP].title

\* the call logged at position i of close_log is << op, target >>
LogAt(i, op, target) ==
  /\ i \in 1..Len(close_log)
  /\ close_log[i] = << op, target >>

\* C36: close_cabas closes the window first, then terminates the spawned
\* process and waits for it, and kills it only after terminate raised or
\* the wait ran out; in the scan that follows each process gets terminate
\* first and kill only when is_running() said it was still there.
C36_Escalation ==
  \A i \in 1..Len(close_log) :
    /\ LogAt(i, "close", "window") => i = 1
    /\ LogAt(i, "terminate", "process") =>
         \A j \in 1..(i - 1) : LogAt(j, "close", "window")
    /\ LogAt(i, "wait", "process") => LogAt(i - 1, "terminate", "process")
    /\ LogAt(i, "kill", "process") =>
         \/ LogAt(i - 1, "raised", "process")
              /\ LogAt(i - 2, "terminate", "process")
         \/ LogAt(i - 1, "timeout", "process")
              /\ LogAt(i - 2, "wait", "process")
    /\ close_log[i][1] = "scan" =>
         \A j \in (i + 1)..Len(close_log) :
           close_log[j][2] \notin {"window", "process"}
    /\ \A p \in {"pre", "own"} :
         /\ LogAt(i, "terminate", p) =>
              \E j \in 1..(i - 1) : close_log[j][1] = "scan"
         /\ LogAt(i, "kill", p) =>
              LogAt(i - 1, "is_running", p) /\ LogAt(i - 2, "terminate", p)

\* the whole escalation: the wait ran out, the process was killed, and the
\* scan killed a process that was still running after terminate
C36_Witness ==
  /\ pc = "closed"
  /\ LogAt(1, "close", "window")
  /\ LogAt(2, "terminate", "process")
  /\ LogAt(3, "wait", "process")
  /\ LogAt(4, "timeout", "process")
  /\ LogAt(5, "kill", "process")
  /\ \E i \in 7..Len(close_log), p \in {"pre", "own"} :
       LogAt(i - 2, "terminate", p) /\ LogAt(i, "kill", p)

\* the screenshots login_to_cabas takes on its way out, in order
TerminalShots ==
  SelectSeq(screenshots, LAMBDA n :
    n \in {"login_success.png", "login_failed.png", "login_error.png"})

SomeSuccess == \E i \in 1..Len(verified) : verified[i].result

\* C37: when login_to_cabas has returned it has asked for exactly one of
\* login_success.png, login_failed.png and login_error.png, as its last
\* screenshot: login_success.png exactly when it returns True and
\* login_failed.png when the three strategies were used up; whether that
\* screenshot could be saved makes no difference to the result.
C37_TerminalScreenshot ==
  (pc = "test_after_login" /\ LoginReturned) =>
    /\ Len(TerminalShots) = 1
    /\ screenshots[Len(screenshots)] = TerminalShots[1]
    /\ TerminalShots[1] = "login_success.png" <=> login_result = "true"
    /\ (Len(invoked) = Len(STRATEGIES) /\ ~SomeSuccess)
         => TerminalShots[1] = "login_failed.png"
    /\ shot_saved \in {"saved", "lost"}
    /\ login_result = "true" <=> SomeSuccess

\* login_success.png could not be saved and login_to_cabas returns True
C37_Witness ==
  /\ pc = "test_after_login"
  /\ shot_saved = "lost"
  /\ login_result = "true"
  /\ TerminalShots = << "login_success.png" >>

\* this step assigns self.cabas_window: the discovery found a window,
\* refresh_window_reference succeeded, or verify_login_success looked the
\* window up by its title
HandleAssigned ==
  \/ pc = "discover" /\ pc' = "setup_launch"
  \/ refresh_obs' = "ok"
  \/ pc = "settle" /\ pc' = "verified" /\ verdict'.resolved

\* C38: every window assigned to self.cabas_window is, when it is assigned,
\* visible, wider and higher than 100, and has a title hint in its title.
C38_TrackedHandle ==
  [][HandleAssigned =>
       /\ cabas_window' # None
       /\ Discoverable(windows[cabas_window'])]_vars

\* this step ran a re-resolution of the window that failed:
\* refresh_window_reference returned False, or the lookup by title in
\* verify_login_success raised
ResolutionFailed ==
  \/ refresh_obs' = "failed"
  \/ pc = "settle" /\ pc' = "verified" /\ cabas_window # None
       /\ ~verdict'.resolved

\* C39: a re-resolution that fails leaves self.cabas_window as it was.
C39_FailedResolutionKeepsHandle ==
  [][ResolutionFailed => cabas_window' = cabas_window]_vars

\* the lookup by title has raised and the handle is still held
C39_Witness ==
  /\ pc = "verified"
  /\ ~verdict.resolved
  /\ cabas_window = APP

\* C40: a process that was running before launch_cabas, so that nothing was
\* spawned and no process reference is held, is never given terminate or
\* kill by close_cabas.
C40_OnlyOwnProcess ==
  (~process /\ spawns = 0) =>
    /\ ~Attempted("terminate", "pre")
    /\ ~Attempted("kill", "pre")

====
